---- MODULE Spec2Model ----
(***************************************************************************)
(* restaround: profile resolution, rendering of the restic argument vector *)
(* and the pre-hook / main command / post-hook runner.                     *)
(*                                                                         *)
(* Text is modelled as a sequence of chunks (strings): a file name is the  *)
(* sequence of its '_'-separated parts, a content line is the sequence of  *)
(* its chunks where " " is white space and "#" the comment sign, a value   *)
(* is a record [py, s]: s its chunks and py whether it is a PyPath.        *)
(***************************************************************************)
EXTENDS Integers, Sequences, FiniteSets, TLC

VARIABLES
  disk,         \* the profile files that exist (indices into Files)
  rev,          \* the order iterdir() lists a directory in
  command,      \* Main.command
  options,      \* the parsed command line: [profile, dry, flags]
  profile,      \* the current Profile: [st, flags]
  pc,           \* position in Main.__init__ / Command.run
  pre_left,     \* what the generator profile.pre_scripts() still yields
  post_left,    \* what the generator profile.post_scripts() still yields
  env,          \* the environment handed to the hook scripts
  run_history,  \* Main.run_history
  cmd_rc,       \* the exit code of the main command, once it has run
  outcome,      \* how the dispatched command ended: "return", "exit", "crash"
  args,         \* what run_args last returned: [st, argv]
  returncode,   \* Main.returncode (or the exit status of an aborted run)
  windows,      \* platform.system() == 'Windows'
  printed,      \* per key the hooks have printed: the text after the first
                \* "=" of the last such line and which hooks printed it
  fs            \* the directories outside the profiles: [dirs, mounts], the
                \* paths that exist and those that are mount points

vars == <<disk, rev, command, options, profile, pc, pre_left, post_left, env,
          run_history, cmd_rc, outcome, args, returncode, windows,
          printed, fs>>

----------------------------------------------------------------------------
(* Bounds of the model *)

MaxFiles == 3    \* at most this many profile files on disk initially
MaxDepth == 4    \* nesting of Profile.inherit at which Python's recursion limit is taken to hit
MaxCode == 520   \* the return codes of the dispatched command lie in -MaxCode..MaxCode

----------------------------------------------------------------------------
(* The flag classes *)

PlainFlagNames ==
  {"archive", "exclude-larger-than", "group-by", "keep-daily", "keep-hourly",
   "keep-last", "keep-monthly", "keep-weekly", "keep-within",
   "keep-within-daily", "keep-within-hourly", "keep-within-last",
   "keep-within-monthly", "keep-within-weekly", "keep-within-within",
   "keep-within-yearly", "keep-yearly", "key-hint", "key-hint2",
   "limit-download", "limit-upload", "max-age", "max-repack-size",
   "max-unused", "mode", "newest", "oldest", "parent", "path",
   "read-data-subset", "remove", "set", "snapshot", "snapshot-template",
   "stdin-filename", "target", "time", "user", "verbose"}

BinaryFlagNames ==
  {"allow-other", "blob", "check-unused", "cleanup", "cleanup-cache",
   "compact", "copy-chunker-params", "dry-run", "exclude-caches", "force",
   "ignore-case", "ignore-ctime", "ignore-inode", "json", "latest", "long",
   "metadata", "no-cache", "no-default-permissions", "no-lock", "no-size",
   "one-file-system", "owner-root", "pack", "prune", "quiet",
   "read-all-packs", "read-data", "recursive", "remove-all",
   "repack-cacheable-only", "show-pack-id", "stdin", "tree", "verify",
   "with-atime", "with-cache"}

ListFlagNames ==
  {"add", "exclude", "exclude-if-present", "files-from", "files-from-raw",
   "files-from-verbatim", "host", "iexclude", "iinclude", "include",
   "inherit", "keep-tag", "tag"}

FileFlagNames ==
  {"cacert", "cache-dir", "exclude-file", "iexclude-file",
   "new-password-file", "password-command", "password-command2",
   "password-file", "password-file2", "repo", "repo2", "repository-file",
   "repository-file2", "tls-client-cert"}

ScriptFlagNames == {"post", "pre"}

PositionalFlagNames ==
  {"dir", "filedir", "mountpoint", "objects", "pattern", "snapshotid"}

SinglePositionalFlagNames == {"keycommand", "keyid", "singlesnapshotid"}

\* Main.flags: every flag class, by restic_name()
MainFlags ==
  PlainFlagNames \cup BinaryFlagNames \cup ListFlagNames \cup FileFlagNames
    \cup ScriptFlagNames \cup PositionalFlagNames \cup SinglePositionalFlagNames

\* isinstance(flag, FileFlag): ScriptFlag derives from FileFlag
IsFileFlag(k) == k \in FileFlagNames \cup ScriptFlagNames

\* isinstance(flag, PositionalFlag): SinglePositionalFlag derives from it
IsPositional(k) == k \in PositionalFlagNames \cup SinglePositionalFlagNames

\* the class attribute multi
Multi(k) ==
  CASE k \in PlainFlagNames -> k = "path"
    [] k \in BinaryFlagNames -> FALSE
    [] k \in ListFlagNames -> TRUE
    [] k \in FileFlagNames -> k \in {"exclude-file", "iexclude-file"}
    [] k \in ScriptFlagNames -> TRUE
    [] k \in PositionalFlagNames -> TRUE
    [] OTHER -> FALSE

\* the class attribute resolve_content
ResolveContent(k) ==
  CASE k \in ListFlagNames ->
         k \notin {"files-from", "files-from-raw", "files-from-verbatim"}
    [] k \in FileFlagNames -> k \in {"repo", "repo2", "cacert", "cache-dir"}
    [] k \in ScriptFlagNames -> FALSE
    [] OTHER -> TRUE

----------------------------------------------------------------------------
(* The command catalog *)

GeneralFlags ==
  <<"cacert", "cache-dir", "cleanup-cache",
    "inherit", "json", "key-hint", "limit-download", "limit-upload",
    "no-cache", "no-lock",
    "password-command", "password-file",
    "pre", "post",
    "repository-file",
    "quiet", "repo", "tls-client-cert", "verbose">>

\* Main.commands: every command class, by restic_name()
CommandNames ==
  {"backup", "cat", "check", "copy", "cpal", "diff", "dump", "find",
   "forget", "help", "init", "key", "list", "ls", "migrate", "mount",
   "prune", "rebuild-index", "recover", "restore", "rmcpal", "selftest",
   "snapshots", "stats", "tag", "unlock"}

UseGeneralFlags(cmd) == cmd \notin {"cpal", "rmcpal", "help", "selftest"}

SpecificFlags(cmd) ==
  CASE cmd = "backup" ->
         <<"exclude", "exclude-file", "exclude-caches",
           "exclude-if-present", "files-from",
           "exclude-larger-than", "iexclude-file",
           "files-from-raw", "files-from-verbatim", "ignore-ctime",
           "force", "host", "iexclude", "ignore-inode",
           "one-file-system", "parent", "stdin",
           "stdin-filename", "tag", "time", "with-atime", "filedir">>
    [] cmd \in {"cpal", "rmcpal"} -> <<"repo">>
    [] cmd \in {"cat", "list"} -> <<"objects">>
    [] cmd = "check" ->
         <<"check-unused", "read-data", "read-data-subset", "with-cache">>
    [] cmd = "diff" -> <<"metadata", "snapshotid">>
    [] cmd = "dump" -> <<"archive", "host", "path", "tag">>
    [] cmd = "find" ->
         <<"blob", "ignore-case", "long", "newest", "oldest", "host",
           "pack", "path", "show-pack-id", "snapshot", "tag", "tree",
           "pattern">>
    [] cmd = "forget" ->
         <<"keep-last", "keep-hourly", "keep-daily", "keep-weekly",
           "keep-monthly", "keep-yearly", "keep-within",
           "keep-within-hourly", "keep-within-daily", "keep-within-weekly",
           "keep-within-monthly", "keep-within-yearly", "keep-tag", "host",
           "tag", "path", "compact", "group-by", "dry-run", "prune",
           "max-unused", "max-repack-size", "repack-cacheable-only",
           "snapshotid">>
    [] cmd = "init" ->
         <<"copy-chunker-params", "key-hint2", "password-command2",
           "password-file2", "repo2", "repository-file2">>
    [] cmd = "ls" ->
         <<"host", "long", "path", "recursive", "tag", "singlesnapshotid",
           "dir">>
    [] cmd = "mount" ->
         <<"allow-other", "host", "no-default-permissions", "owner-root",
           "path", "snapshot-template", "tag", "mountpoint">>
    [] cmd = "prune" ->
         <<"dry-run", "max-repack-size", "max-unused",
           "repack-cacheable-only">>
    [] cmd = "rebuild-index" -> <<"read-all-packs">>
    [] cmd = "restore" ->
         <<"exclude", "host", "iexclude", "iinclude", "include", "path",
           "tag", "target", "verify", "snapshotid">>
    [] cmd = "snapshots" ->
         <<"compact", "group-by", "host", "latest", "path", "tag",
           "snapshotid">>
    [] cmd = "stats" -> <<"host", "mode", "path", "tag", "snapshotid">>
    [] cmd = "tag" ->
         <<"add", "host", "path", "remove", "set", "tag", "snapshotid">>
    [] cmd = "unlock" -> <<"remove-all">>
    [] cmd = "migrate" -> <<"force">>
    [] cmd = "copy" ->
         <<"host", "key-hint2", "password-command2", "password-file2",
           "path", "repo2", "repository-file2", "tag">>
    [] cmd = "key" ->
         <<"host", "new-password-file", "user", "keycommand", "keyid">>
    [] OTHER -> <<>>

SeqRange(s) == {s[i] : i \in 1..Len(s)}

AcceptsFlags(cmd) ==
  IF UseGeneralFlags(cmd) THEN GeneralFlags \o SpecificFlags(cmd)
  ELSE SpecificFlags(cmd)

\* the position of kind k in the accepted list (0 when it is not in it)
AcceptIndex(cmd, k) ==
  LET acc == AcceptsFlags(cmd)
  IN IF k \in SeqRange(acc)
     THEN CHOOSE i \in 1..Len(acc) : acc[i] = k /\ \A j \in 1..(i-1) : acc[j] # k
     ELSE 0

----------------------------------------------------------------------------
(* Files on disk *)

PATHS == <<"/etc", "~/.config">>

Str(x) == [py |-> FALSE, s |-> <<x>>]

\* PyPath(x)
PyPath(v) == [py |-> TRUE, s |-> v.s]

File(d, p, n, c) == [dir |-> d, prof |-> <<p>>, name |-> n, content |-> c]

\* The files a run may find or a hook may write: flag files, hook scripts,
\* then files with content lines and entries about inheritance.  A profile directory exists also when none of its files
\* does.
Files ==
  << File(1, "default", <<"verbose", "7">>, <<>>),
     File(1, "default", <<"tag", "a">>, <<>>),
     File(1, "default", <<"inherit", "p">>, <<>>),
     File(2, "p", <<"verbose", "4">>, <<>>),
     File(1, "p", <<"backup", "verbose", "3">>, <<>>),
     File(2, "p", <<"tag", "b">>, <<>>),
     File(2, "p", <<"backup", "tag", "c">>, <<>>),
     File(2, "p", <<"no", "verbose">>, <<>>),
     File(2, "p", <<"inherit", "q">>, <<>>),
     File(2, "p", <<"init", "verbose", "3">>, << <<"x">> >>),
     File(2, "q", <<"verbose">>, << <<" ", "1", " ">>, <<"#", "c">>, <<>> >>),
     File(2, "q", <<"cache-dir", "qq">>, <<>>),
     File(2, "p", <<"repo">>, << <<"/r">> >>),
     File(2, "p", <<"exclude-caches">>, <<>>),
     File(1, "default", <<"pre">>, << <<"#", "!/bin/sh">> >>),
     File(2, "p", <<"init", "pre">>, << <<"#", "!/bin/sh">> >>),
     File(2, "p", <<"post">>, << <<"#", "!/bin/sh">> >>),
     File(2, "p", <<"init", "post">>, << <<"#", "!/bin/sh">> >>),
     File(2, "p", <<"tag">>,
          << <<" ", "a">>, <<"#", "x">>, <<>>, <<" ">>, <<"b", " ">> >>),
     File(2, "p", <<"files-from">>, << <<"a">>, <<"b">> >>),
     File(2, "p", <<"no", "inherit">>, <<>>),
     File(2, "p", <<"backup", "no", "inherit">>, <<>>),
     File(2, "p", <<"verbose">>, <<>>),
     File(2, "q", <<"repo">>, << <<"/data">> >>),
     File(2, "p", <<"inherit">>, << <<"q">> >>),
     File(2, "q", <<"backup", "verbose", "2">>, <<>>),
     File(2, "p", <<"filedir">>, << <<"/s1">>, <<"/s2">> >>),
     File(2, "p", <<"verbose", "1", "2">>, <<>>),
     File(2, "p", <<"limit-upload">>, << <<"1">>, <<"2">> >>),
     File(2, "p", <<"tag", "a", "b", "c">>, <<>>),
     File(2, "p", <<"tag", "no">>, <<>>),
     File(2, "p", <<"backup", "no", "tag">>, <<>>),
     File(2, "q", <<"inherit", "p">>, <<>>),
     File(2, "q", <<"init", "inherit", "q">>, <<>>),
     File(2, "p", <<"pre">>, << <<"#", "!/bin/sh">> >>) >>

NFiles == Len(Files)

FlagFileIds == 1..14
HookFileIds == 15..18

\* str(path) of a file: basedir / 'restaround' / profile_name / filename
FilePath(f) ==
  [py |-> TRUE, s |-> <<PATHS[f.dir], "restaround">> \o f.prof \o f.name]

\* a faulty variant of StSize: every file is taken to be empty
StSizeZero(f) == 0

\* path.stat().st_size
StSize(f) == Len(f.content)

\* x.strip() of one line
RECURSIVE LStrip(_)
LStrip(line) ==
  IF line # <<>> /\ Head(line) = " " THEN LStrip(Tail(line)) ELSE line

RECURSIVE RStrip(_)
RStrip(line) ==
  IF line # <<>> /\ line[Len(line)] = " "
  THEN RStrip(SubSeq(line, 1, Len(line) - 1)) ELSE line

Strip(line) == RStrip(LStrip(line))

\* a faulty variant of FileLines: the lines are not stripped
FileLinesUnstripped(f) ==
  LET kept == SelectSeq(f.content, LAMBDA x : x # <<>> /\ Head(x) # "#")
  IN [i \in 1..Len(kept) |-> [py |-> FALSE, s |-> kept[i]]]

\* Flag.__file_lines
FileLines(f) ==
  LET result == [i \in 1..Len(f.content) |-> Strip(f.content[i])]
      kept == SelectSeq(result, LAMBDA x : x # <<>> /\ Head(x) # "#")
  IN [i \in 1..Len(kept) |-> [py |-> FALSE, s |-> kept[i]]]

----------------------------------------------------------------------------
(* ProfileEntry and the Flag built from it *)

NoCommand == ""   \* command is None

\* the statuses of a computation: it completed, called sys.exit(2), or
\* raised an exception nobody catches
Ok == "ok"
Exit2 == "exit2"
Crash == "crash"

\* ProfileEntry.__init__: [st, path, command, remove, flag_name, values]
ProfileEntry(f) ==
  LET fparts0 == f.name
      first_is_cmd == Len(fparts0) > 1 /\ fparts0[1] \in CommandNames
      \* fparts[2] is read when fparts[1] is 'no' and no flag
      index_error_1 ==
        first_is_cmd /\ fparts0[2] \notin MainFlags /\ fparts0[2] = "no"
          /\ Len(fparts0) < 3
      scoped ==
        first_is_cmd /\ ~index_error_1
          /\ (fparts0[2] \in MainFlags
                \/ (fparts0[2] = "no" /\ fparts0[3] \in MainFlags))
      cmd == IF scoped THEN fparts0[1] ELSE NoCommand
      fparts1 == IF scoped THEN Tail(fparts0) ELSE fparts0
      remove == fparts1[1] = "no"
      fparts2 == IF remove THEN Tail(fparts1) ELSE fparts1
      index_error_2 == fparts2 = <<>>
      values == [i \in 1..(Len(fparts2) - 1) |-> Str(fparts2[i + 1])]
      st == IF index_error_1 \/ index_error_2 THEN Crash
            ELSE IF values # <<>> /\ StSize(f) # 0 THEN Exit2
            ELSE Ok
  IN [st |-> st,
      path |-> FilePath(f),
      command |-> cmd,
      remove |-> remove,
      flag_name |-> IF index_error_1 \/ index_error_2 THEN "" ELSE fparts2[1],
      values |-> IF st = Ok THEN values ELSE <<>>,
      file |-> f]

\* Flag.add_values with the overrides of BinaryFlag and FileFlag:
\* [st, values] of a fresh flag of kind k
AddValues(k, entry) ==
  IF k \in BinaryFlagNames THEN [st |-> Ok, values |-> <<>>]
  ELSE
    LET v1 == IF ResolveContent(k)
              THEN IF entry.values = <<>> THEN FileLines(entry.file)
                   ELSE entry.values
              ELSE IF IsFileFlag(k) THEN <<entry.path>> ELSE entry.values
        v2 == IF IsFileFlag(k) THEN [i \in 1..Len(v1) |-> PyPath(v1[i])]
              ELSE v1
    IN IF ~Multi(k) /\ Len(v1) > 1 THEN [st |-> Exit2, values |-> <<>>]
       ELSE [st |-> Ok, values |-> v2]

\* Flag.__init__(entry) and Flag.add: [st, kind, command, values, remove]
NewFlag(k, entry) ==
  IF entry.remove
  THEN [st |-> Ok, kind |-> k, command |-> NoCommand, values |-> <<>>,
        remove |-> TRUE]
  ELSE LET av == AddValues(k, entry)
       IN [st |-> av.st, kind |-> k, command |-> entry.command,
           values |-> av.values, remove |-> FALSE]

\* a faulty variant of Applies: the command scope of an entry is not looked at
AppliesToAll(entry_command, cmd) == TRUE

\* does an entry with this command scope apply when cmd is selected
Applies(entry_command, cmd) ==
  entry_command = NoCommand \/ entry_command = cmd

FoundFlag(fl) == [st |-> fl.st, none |-> FALSE, flag |-> fl]

\* ProfileEntry.flag: [st, none, flag]; none when the entry is scoped to
\* another command
EntryFlag(entry, cmd) ==
  IF ~Applies(entry.command, cmd)
  THEN [st |-> Ok, none |-> TRUE]
  ELSE IF entry.flag_name \notin MainFlags
  THEN [st |-> Crash, none |-> TRUE]
  ELSE FoundFlag(NewFlag(entry.flag_name, entry))

----------------------------------------------------------------------------
(* Profile *)

\* the file system as a resolution sees it, and the selected command
Ctx(dk, rv, cmd) == [disk |-> dk, rev |-> rv, command |-> cmd]

\* profile_dir.iterdir(): the order is the file system's choice
IterDir(ctx, d, profile_name) ==
  LET ids == IF ctx.rev THEN [i \in 1..NFiles |-> NFiles + 1 - i]
             ELSE [i \in 1..NFiles |-> i]
  IN SelectSeq(ids, LAMBDA i : i \in ctx.disk /\ Files[i].dir = d
                                 /\ Files[i].prof = profile_name)

\* a faulty variant of AcceptedFlag: the accepted list is not looked at
AcceptedFlagAny(ctx, ef) ==
  IF ef.st # Ok THEN [st |-> ef.st, flags |-> <<>>]
  ELSE IF ef.none THEN [st |-> Ok, flags |-> <<>>]
  ELSE [st |-> Ok, flags |-> <<ef.flag>>]

\* the test of Profile.scan on the flag of an entry: [st, flags], the flag
\* when the selected command accepts its class
AcceptedFlag(ctx, ef) ==
  IF ef.st # Ok THEN [st |-> ef.st, flags |-> <<>>]
  ELSE IF ef.none THEN [st |-> Ok, flags |-> <<>>]
  ELSE IF ef.flag.kind \notin SeqRange(AcceptsFlags(ctx.command))
  THEN [st |-> Ok, flags |-> <<>>]
  ELSE [st |-> Ok, flags |-> <<ef.flag>>]

\* ProfileEntry(filename).flag() inside Profile.scan
ScannedFlag(ctx, entry) ==
  IF entry.st # Ok THEN [st |-> entry.st, flags |-> <<>>]
  ELSE AcceptedFlag(ctx, EntryFlag(entry, ctx.command))

\* result.append(flag), unless the entry raised
Collect(acc, sf) ==
  IF sf.st # Ok THEN [st |-> sf.st, flags |-> <<>>]
  ELSE [st |-> Ok, flags |-> acc.flags \o sf.flags]

\* the loop of Profile.scan over the files of the profile directories
RECURSIVE ScanEntries(_, _, _)
ScanEntries(ctx, ids, acc) ==
  IF ids = <<>> \/ acc.st # Ok THEN acc
  ELSE ScanEntries(ctx, Tail(ids),
                   Collect(acc, ScannedFlag(ctx, ProfileEntry(Files[Head(ids)]))))

\* Profile.scan: [st, flags]
Scan(ctx, profile_name) ==
  ScanEntries(ctx,
              IterDir(ctx, 1, profile_name) \o IterDir(ctx, 2, profile_name),
              [st |-> Ok, flags |-> <<>>])

\* a faulty variant of SortByCommand: the flags stay in scan order
SortByCommandUnsorted(flags) == flags

\* sorted(flags, key=lambda x: x.command or ''): the flags that pass the
\* scan are unscoped or scoped to the selected command, '' sorts first and
\* the sort is stable
SortByCommand(flags) ==
  SelectSeq(flags, LAMBDA x : x.command = NoCommand)
    \o SelectSeq(flags, LAMBDA x : x.command # NoCommand)

HasFlag(P, k) == k \in DOMAIN P.flags

SetFlag(P, fl) ==
  [P EXCEPT !.flags = [k \in (DOMAIN P.flags) \cup {fl.kind} |->
                         IF k = fl.kind THEN fl ELSE P.flags[k]]]

\* a faulty variant of IAdd: a value the flag already has is not added
IAddOnce(self, other) ==
  [self EXCEPT !.values =
     self.values \o SelectSeq(other.values,
                              LAMBDA v : \A i \in 1..Len(self.values) :
                                           self.values[i] # v)]

\* Flag.__iadd__
IAdd(self, other) == [self EXCEPT !.values = self.values \o other.values]

\* a faulty variant of ApplyTo: a single-valued flag keeps its first value
ApplyToKeepingFirst(P, fl) ==
  IF ~HasFlag(P, fl.kind) THEN SetFlag(P, fl)
  ELSE IF Multi(fl.kind) THEN SetFlag(P, IAdd(P.flags[fl.kind], fl))
  ELSE P

\* a faulty variant of ApplyTo: a flag that is present takes the new values
\* on top of its own, whatever its kind
ApplyToAccumulating(P, fl) ==
  IF ~HasFlag(P, fl.kind) THEN SetFlag(P, fl)
  ELSE SetFlag(P, IAdd(P.flags[fl.kind], fl))

\* Flag.apply_to (not Inherit's)
ApplyTo(P, fl) ==
  IF ~HasFlag(P, fl.kind) THEN SetFlag(P, fl)
  ELSE IF Multi(fl.kind) THEN SetFlag(P, IAdd(P.flags[fl.kind], fl))
  ELSE SetFlag(P, fl)

\* a faulty variant of RemoveFrom: the flag stays
RemoveFromNothing(P, fl) == P

\* Flag.remove_from (not Inherit's)
RemoveFrom(P, fl) ==
  [P EXCEPT !.flags = [k \in (DOMAIN P.flags) \ {fl.kind} |-> P.flags[k]]]

\* The pending calls of a resolution, innermost first.  An item is
\*   [op |-> "apply", flag, depth]     flag.apply_to(profile)
\*   [op |-> "remove", flag, depth]    flag.remove_from(profile)
\*   [op |-> "inherit", name, depth]   profile.inherit(name)
\* depth counts the nested calls of Profile.inherit.
ApplyItem(fl, depth) ==
  [op |-> "apply", flag |-> fl, name |-> <<>>, depth |-> depth]

RemoveItem(fl, depth) ==
  [op |-> "remove", flag |-> fl, name |-> <<>>, depth |-> depth]

InheritItem(profile_name, depth) ==
  [op |-> "inherit", flag |-> <<>>, name |-> profile_name, depth |-> depth]

\* a faulty variant of InheritApplyTo: no profile is inherited
InheritApplyToNothing(fl, depth) == <<>>

\* Inherit.apply_to: profile.inherit(v) for every value
InheritApplyTo(fl, depth) ==
  [i \in 1..Len(fl.values) |-> InheritItem(fl.values[i].s, depth)]

\* a faulty variant of InheritCalls: the Inherit flags are applied last
InheritCallsLast(given0, depth) ==
  LET inherit_flags == SelectSeq(given0, LAMBDA x : x.kind = "inherit")
      positive ==
        SelectSeq(given0, LAMBDA x : x.kind # "inherit" /\ ~x.remove)
      negative == SelectSeq(given0, LAMBDA x : x.kind # "inherit" /\ x.remove)
  IN [i \in 1..Len(positive) |-> ApplyItem(positive[i], depth)]
       \o [i \in 1..Len(negative) |-> RemoveItem(negative[i], depth)]
       \o [i \in 1..Len(inherit_flags) |-> ApplyItem(inherit_flags[i], depth)]

\* the calls Profile.inherit makes for the flags given: the Inherit flags
\* first, then the additions, then the removals
InheritCalls(given0, depth) ==
  LET inherit_flags == SelectSeq(given0, LAMBDA x : x.kind = "inherit")
      positive ==
        SelectSeq(given0, LAMBDA x : x.kind # "inherit" /\ ~x.remove)
      negative == SelectSeq(given0, LAMBDA x : x.kind # "inherit" /\ x.remove)
  IN [i \in 1..Len(inherit_flags) |-> ApplyItem(inherit_flags[i], depth)]
       \o [i \in 1..Len(positive) |-> ApplyItem(positive[i], depth)]
       \o [i \in 1..Len(negative) |-> RemoveItem(negative[i], depth)]

\* Profile.inherit after its scan: [P, push]
Scanned(P, sc, depth) ==
  IF sc.st # Ok THEN [P |-> [P EXCEPT !.st = sc.st], push |-> <<>>]
  ELSE [P |-> P, push |-> InheritCalls(SortByCommand(sc.flags), depth + 1)]

\* a faulty variant of InheritBody: at the recursion limit the call returns
\* without a word
InheritBodyShallow(ctx, P, profile_name, depth) ==
  IF depth > MaxDepth THEN [P |-> P, push |-> <<>>]
  ELSE Scanned(P, Scan(ctx, profile_name), depth)

\* the body of Profile.inherit: [P, push], the calls it makes in order.
\* The interpreter's recursion limit raises RecursionError.
InheritBody(ctx, P, profile_name, depth) ==
  IF depth > MaxDepth THEN [P |-> [P EXCEPT !.st = Crash], push |-> <<>>]
  ELSE Scanned(P, Scan(ctx, profile_name), depth)

\* one pending call: [P, push]
Step(ctx, P, item) ==
  IF item.op = "inherit"
  THEN InheritBody(ctx, P, item.name, item.depth)
  ELSE IF item.op = "remove"
  THEN [P |-> RemoveFrom(P, item.flag), push |-> <<>>]
  ELSE IF item.flag.kind = "inherit"
  THEN [P |-> P, push |-> InheritApplyTo(item.flag, item.depth)]
  ELSE [P |-> ApplyTo(P, item.flag), push |-> <<>>]

\* the state of a resolution after one call: its pending calls go first
Advance(step, rest) == [P |-> step.P, work |-> step.push \o rest]

\* runs the pending calls until none is left or one fails
RECURSIVE RunFrom(_, _)
RunFrom(ctx, r) ==
  IF r.work = <<>> \/ r.P.st # Ok THEN r.P
  ELSE RunFrom(ctx, Advance(Step(ctx, r.P, Head(r.work)), Tail(r.work)))

RunCalls(ctx, P, work) == RunFrom(ctx, [P |-> P, work |-> work])

\* Profile.inherit
Inherit(ctx, P, profile_name, depth) ==
  RunCalls(ctx, P, <<InheritItem(profile_name, depth)>>)

\* a faulty variant of OptionValue: a flag that was not given is used too
OptionValueAlways(opt, k) ==
  IF k \in DOMAIN opt.flags THEN [use |-> TRUE, values |-> opt.flags[k]]
  ELSE [use |-> TRUE, values |-> <<>>]

\* what parse_args leaves in options for an accepted flag: the value given,
\* or the parser's default ([] for nargs='*', else None or False)
OptionValue(opt, k) ==
  IF k \in DOMAIN opt.flags THEN [use |-> TRUE, values |-> opt.flags[k]]
  ELSE IF k \in PositionalFlagNames THEN [use |-> TRUE, values |-> <<>>]
  ELSE [use |-> FALSE, values |-> <<>>]

RECURSIVE UseOptionsFrom(_, _, _, _)
UseOptionsFrom(ctx, P, opt, kinds) ==
  IF kinds = <<>> \/ P.st # Ok THEN P
  ELSE LET k == Head(kinds)
           ov == OptionValue(opt, k)
           fl == [st |-> Ok, kind |-> k, command |-> NoCommand,
                  values |-> ov.values, remove |-> FALSE]
           P1 == IF ov.use THEN RunCalls(ctx, P, <<ApplyItem(fl, 1)>>) ELSE P
       IN UseOptionsFrom(ctx, P1, opt, Tail(kinds))

\* Profile.use_options
UseOptions(ctx, P, opt) ==
  UseOptionsFrom(ctx, P, opt, AcceptsFlags(ctx.command))

NoFlags == [k \in {} |-> 0]

EmptyProfile == [st |-> Ok, flags |-> NoFlags]

\* Profile.__init__(options)
NewProfile(ctx, opt) ==
  LET P1 == Inherit(ctx, EmptyProfile, <<"default">>, 1)
      P2 == Inherit(ctx, P1, opt.profile, 1)
  IN UseOptions(ctx, P2, opt)

----------------------------------------------------------------------------
(* Rendering *)

\* One element of an argument vector.  form: "opt" is --name=val, "bool"
\* is --name, "pos" is the bare val, "word" a literal; name is the flag
\* whose args() produced the element.
Token(form, name, val) == [form |-> form, name |-> name, val |-> val]

Word(w) == Token("word", "", Str(w))

\* Flag.args with the overrides of BinaryFlag, PositionalFlag, ScriptFlag
FlagArgs(fl) ==
  CASE fl.kind \in BinaryFlagNames -> <<Token("bool", fl.kind, Str(""))>>
    [] fl.kind \in ScriptFlagNames -> <<>>
    [] IsPositional(fl.kind) ->
         [i \in 1..Len(fl.values) |-> Token("pos", fl.kind, fl.values[i])]
    [] OTHER ->
         [i \in 1..Len(fl.values) |-> Token("opt", fl.kind, fl.values[i])]

\* Profile.find_flags(cls)
FindFlags(P, k) == IF HasFlag(P, k) THEN <<P.flags[k]>> ELSE <<>>

RECURSIVE SortedFlagsFrom(_, _)
SortedFlagsFrom(P, kinds) ==
  IF kinds = <<>> THEN <<>>
  ELSE FindFlags(P, Head(kinds)) \o SortedFlagsFrom(P, Tail(kinds))

\* the accepted kinds from the last to the first
RECURSIVE Reversed(_)
Reversed(kinds) ==
  IF kinds = <<>> THEN <<>> ELSE Append(Reversed(Tail(kinds)), Head(kinds))

\* a faulty variant of SortedFlags: the declaration order is walked backwards
SortedFlagsReversed(cmd, P) == SortedFlagsFrom(P, Reversed(AcceptsFlags(cmd)))

\* Profile.sorted_flags
SortedFlags(cmd, P) == SortedFlagsFrom(P, AcceptsFlags(cmd))

RECURSIVE ArgsOf(_)
ArgsOf(flags) ==
  IF flags = <<>> THEN <<>> ELSE FlagArgs(Head(flags)) \o ArgsOf(Tail(flags))

\* Profile.restic_parameters
ResticParameters(cmd, P) == ArgsOf(SortedFlags(cmd, P))

\* CmdCpal.repo: [st, repo]
CpalRepo(P) ==
  IF ~HasFlag(P, "repo") THEN [st |-> Exit2, repo |-> Str("")]
  ELSE IF P.flags["repo"].values = <<>> THEN [st |-> Crash, repo |-> Str("")]
  ELSE [st |-> Ok, repo |-> P.flags["repo"].values[1]]

\* repodir / '..' / (str(repodir) + '.restaround_cpal'): the '/' operator
\* needs a PyPath; with an absolute repodir the result is the repository
\* path with '.restaround_cpal' appended
CopyDirOf(r) ==
  IF r.st # Ok THEN [st |-> r.st, dir |-> Str("")]
  ELSE IF ~r.repo.py THEN [st |-> Crash, dir |-> Str("")]
  ELSE [st |-> Ok,
        dir |-> [py |-> TRUE, s |-> r.repo.s \o <<".restaround_cpal">>]]

\* CmdCpal.copydir: [st, dir]
CopyDir(P) == CopyDirOf(CpalRepo(P))

\* CmdCpal.run_args: [st, argv]
CpalRunArgs(r, c) ==
  IF r.st # Ok THEN [st |-> r.st, argv |-> <<>>]
  ELSE IF c.st # Ok THEN [st |-> c.st, argv |-> <<>>]
  ELSE [st |-> Ok,
        argv |-> <<Word("cp"), Word("-al"), Token("pos", "repo", r.repo),
                   Token("pos", "", c.dir)>>]

\* CmdRmcpal.run_args: [st, argv]
RmcpalRunArgs(c) ==
  IF c.st # Ok THEN [st |-> c.st, argv |-> <<>>]
  ELSE [st |-> Ok,
        argv |-> <<Word("rm"), Word("-r"), Token("pos", "", c.dir)>>]

\* Command.run_args: [st, argv]
CommandRunArgs(cmd, P) ==
  [st |-> Ok,
   argv |-> <<Word("restic"), Word(cmd)>> \o ResticParameters(cmd, P)]

\* run_args of the class of the selected command
RunArgs(cmd, P) ==
  CASE cmd = "cpal" -> CpalRunArgs(CpalRepo(P), CopyDir(P))
    [] cmd = "rmcpal" -> RmcpalRunArgs(CopyDir(P))
    [] OTHER -> CommandRunArgs(cmd, P)

\* Profile.pre_scripts, Profile.post_scripts
PreScripts(P) == IF HasFlag(P, "pre") THEN P.flags["pre"].values ELSE <<>>

PostScripts(P) == IF HasFlag(P, "post") THEN P.flags["post"].values ELSE <<>>

----------------------------------------------------------------------------
(* Hook scripts and the main command: what the child processes may do *)

\* exit codes a hook script may end with (exit codes are 32 bit on Windows)
HookExitCodes == {0, 3, 256}

\* exit codes of the main command as subprocess.call reports them: the
\* exit status, or minus the signal number
MainExitCodes == {0, 1, 256, -9}

\* what a hook script may print on standard output, line by line; "=" is
\* a chunk of its own
HookOutputs ==
  { <<>>,
    << <<"FOO", "=", "b", "=", "c">>, <<"noise">> >>,
    << <<"FOO", "=", "x">>, <<"FOO", "=", "\"", "d", "\"">>,
       <<"RESTIC_EXITCODE", "=", "7">> >> }

\* what a hook script may do to the profile files
HookEdits ==
  { [op |-> "none", id |-> 0],
    [op |-> "write", id |-> 13],
    [op |-> "delete", id |-> 4],
    [op |-> "delete", id |-> 16],
    [op |-> "write", id |-> 16],
    [op |-> "delete", id |-> 18] }

ApplyEdit(dk, ed) ==
  CASE ed.op = "write" -> dk \cup {ed.id}
    [] ed.op = "delete" -> dk \ {ed.id}
    [] OTHER -> dk

NoEnv == [k \in {} |-> <<>>]

\* no directory outside the profiles
NoDirs == [dirs |-> {}, mounts |-> {}]

\* a faulty variant of SetEnv: a key that is set keeps its value
SetEnvKeepingFirst(e, key, value) ==
  [k \in (DOMAIN e) \cup {key} |->
     IF k \in DOMAIN e THEN e[k] ELSE value]

SetEnv(e, key, value) ==
  [k \in (DOMAIN e) \cup {key} |-> IF k = key THEN value ELSE e[k]]

\* os.environ as Main.__init__ leaves it
InitialEnv(opt, cmd) ==
  LET e1 == SetEnv(NoEnv, <<"RESTAROUND_PID">>, <<"pid">>)
      e2 == SetEnv(e1, <<"RESTAROUND_PROFILE">>, opt.profile)
      e3 == SetEnv(e2, <<"RESTAROUND_DRY_RUN">>,
                   IF opt.dry THEN <<"1">> ELSE <<"0">>)
      e4 == SetEnv(e3, <<"RESTAROUND_LOGLEVEL">>, <<"info">>)
  IN SetEnv(e4, <<"RESTAROUND_COMMAND">>, <<cmd>>)

\* the index of the first "=" of a line, 0 when it has none
FirstEq(line) ==
  IF \E i \in 1..Len(line) : line[i] = "="
  THEN CHOOSE i \in 1..Len(line) :
         line[i] = "=" /\ \A j \in 1..(i - 1) : line[j] # "="
  ELSE 0

\* text[1:-1] on Windows when text starts and ends with a double quote
Unquoted(text, win) ==
  IF win /\ text # <<>> /\ Head(text) = "\"" /\ text[Len(text)] = "\""
  THEN SubSeq(text, 2, Len(text) - 1)
  ELSE text

\* env[key] = value for one line with a "=" at index i of the unquoted line
LineSet(e, line, i, win) ==
  SetEnv(e, SubSeq(line, 1, i - 1),
         Unquoted(SubSeq(line, i + 1, Len(line)), win))

\* one line of the script's standard output
ParseLine(e, line, win) ==
  IF FirstEq(line) = 0 THEN e
  ELSE LineSet(e, Unquoted(line, win), FirstEq(Unquoted(line, win)), win)

\* the loop of run_script over the lines of the script's standard output:
\* key = parts[0], value = '='.join(parts[1:])
RECURSIVE ParseOutput(_, _, _)
ParseOutput(e, lines, win) ==
  IF lines = <<>> THEN e
  ELSE ParseOutput(ParseLine(e, Head(lines), win), Tail(lines), win)

\* script.exists(), for a script that is the path of a profile file.  On
\* Windows the hook files carry the suffix .bat, which ProfileEntry takes
\* off the name and script_path puts on: the names are given without it.
Exists(dk, script) == \E i \in dk : FilePath(Files[i]) = script

\* Can run_script start the script?  A script given on the command line
\* is a str and has no exists(); check_output of a missing file raises
ScriptStarts(dk, script) == script.py /\ Exists(dk, script)

HistEntry(cmdline, rc, has_env) ==
  [cmdline |-> cmdline, returncode |-> rc, env |-> has_env]

ScriptLine(script) == <<Token("script", "", script)>>

----------------------------------------------------------------------------
(* Main.__init__ and Command.run *)

\* a faulty variant of Remap: every code passes through
RemapOff(r) == r

\* a faulty variant of Remap: only positive codes are remapped
RemapPositive(r) == IF r > 0 /\ r % 256 = 0 THEN r - 1 ELSE r

\* the remap of Main.__init__
Remap(r) == IF r # 0 /\ r % 256 = 0 THEN r - 1 ELSE r

\* a faulty variant of PreHookFailed: the code of a pre-hook is not looked at
PreHookFailedNever(c) == FALSE

\* the test  if returncode:  after a pre-hook
PreHookFailed(c) == c # 0

\* a faulty variant of Rescan: the profile resolved before the hook is kept
RescanSkipped(ctx, opt, old) == old

\* a faulty variant of Rescan: the flags resolved before the hook are not
\* dropped, the new resolution starts from them
RescanOnTop(ctx, opt, old) ==
  UseOptions(ctx,
             Inherit(ctx, Inherit(ctx, old, <<"default">>, 1), opt.profile, 1),
             opt)

\* the rescan after a pre-hook: Profile(profile.options)
Rescan(ctx, opt, old) == NewProfile(ctx, opt)

\* the exit status of a run that ends in sys.exit(2) or in a traceback
AbortStatus(st) == IF st = Exit2 THEN 2 ELSE 1

AbortOutcome(st) == IF st = Exit2 THEN "exit" ELSE "crash"

Aborted(st) ==
  /\ pc' = "done"
  /\ outcome' = AbortOutcome(st)
  /\ returncode' = AbortStatus(st)

Returned(r) ==
  /\ pc' = "done"
  /\ outcome' = "return"
  /\ returncode' = Remap(r)

NoArgs == [st |-> "none", argv |-> <<>>]

\* The command lines of the resolution-only runs: the command and the
\* flags given, each accepted by the command
OptionSets ==
  { NoFlags,
    [k \in {"verbose"} |-> <<Str("9")>>],
    [k \in {"cache-dir", "inherit"} |->
       IF k = "inherit" THEN <<Str("q")>> ELSE <<Str("/c")>>],
    [k \in {"inherit"} |-> <<Str("default")>>],
    [k \in {"inherit"} |-> <<Str("q")>>],
    [k \in {"filedir"} |-> <<Str("/src")>>] }

ResolveCommands == {"backup", "init", "cpal"}

ResolveCommandLines ==
  { cl \in [command : ResolveCommands, flags : OptionSets] :
      DOMAIN cl.flags \subseteq SeqRange(AcceptsFlags(cl.command)) }

RunCommandLines ==
  [command : {"init"},
   flags : {NoFlags, [k \in {"post"} |-> <<Str("/x")>>]}]

RunFileIds == {4, 10} \cup HookFileIds

\* the files of the resolution-only runs: the flag files, a pre-hook and a
\* post-hook
ResolveFileIds == FlagFileIds \cup {15, 17}

DiskChoices(ids) == {dk \in SUBSET ids : Cardinality(dk) <= MaxFiles}

InitWith(disks, cmdlines, dries, platforms) ==
  /\ disk \in disks
  /\ windows \in platforms
  /\ printed = NoEnv
  /\ fs = NoDirs
  /\ rev \in BOOLEAN
  /\ \E cl \in cmdlines, d \in dries :
       /\ command = cl.command
       /\ options = [profile |-> <<"p">>, dry |-> d, flags |-> cl.flags]
  /\ profile = EmptyProfile
  /\ pc = "start"
  /\ pre_left = <<>>
  /\ post_left = <<>>
  /\ env = NoEnv
  /\ run_history = <<>>
  /\ cmd_rc = 0
  /\ outcome = "none"
  /\ args = NoArgs
  /\ returncode = 0

\* a live or dry run with hooks
Init == InitWith(DiskChoices(RunFileIds), RunCommandLines, BOOLEAN, BOOLEAN)

\* a dry run over the flag files
InitResolve ==
  InitWith(DiskChoices(ResolveFileIds), ResolveCommandLines, {TRUE}, {FALSE})

\* the files of the runs that look at single entries: files with content
\* lines, entries about inheritance, an empty file and a binary flag
EntryFileIds == {4, 14} \cup (19..27)

EntryCommands == ResolveCommands \cup {"rmcpal"}

EntryCommandLines ==
  { cl \in [command : EntryCommands,
            flags : {NoFlags, [k \in {"verbose"} |-> <<Str("9")>>],
                     [k \in {"filedir"} |-> <<Str("/src")>>]}] :
      DOMAIN cl.flags \subseteq SeqRange(AcceptsFlags(cl.command)) }

\* a dry run over the entry files
InitEntries ==
  InitWith(DiskChoices(EntryFileIds), EntryCommandLines, {TRUE}, {FALSE})

\* the files of the runs that look at entry names: names with several
\* values, names that begin with a word that is a command and a flag
NameFileIds == {4, 6} \cup (28..32)

NameCommandLines ==
  [command : {"backup", "init", "tag"},
   flags : {NoFlags, [k \in {"verbose"} |-> <<Str("9")>>]}]

\* a dry run over the files with these names
InitNames ==
  InitWith(DiskChoices(NameFileIds), NameCommandLines, {TRUE}, {FALSE})

\* a faulty variant of DryShown: the run returns the number of arguments
DryShownCounting(a) ==
  /\ args' = a
  /\ IF a.st # Ok THEN Aborted(a.st) ELSE Returned(Len(a.argv))

\* Command.run with --dry: the argument vector is shown, nothing is run
DryShown(a) ==
  /\ args' = a
  /\ IF a.st # Ok THEN Aborted(a.st) ELSE Returned(0)

\* Main.__init__ with --dry after Profile(options)
DryResolved(P) ==
  /\ profile' = P
  /\ IF P.st # Ok THEN Aborted(P.st) /\ args' = NoArgs
     ELSE DryShown(RunArgs(command, P))

\* Main.__init__ with --dry: resolve, show the argument vector, return 0
MainDry ==
  /\ pc = "start"
  /\ options.dry
  /\ DryResolved(NewProfile(Ctx(disk, rev, command), options))
  /\ env' = InitialEnv(options, command)
  /\ UNCHANGED <<disk, rev, command, options, pre_left, post_left,
                 run_history, cmd_rc, windows, printed, fs>>

\* a faulty variant of Started: the pre-hooks are taken last to first
StartedBackwards(P) ==
  /\ profile' = P
  /\ IF P.st # Ok
     THEN Aborted(P.st) /\ pre_left' = <<>>
     ELSE /\ pre_left' = Reversed(PreScripts(P))
          /\ pc' = IF PreScripts(P) = <<>> THEN "main" ELSE "pre"
          /\ UNCHANGED <<outcome, returncode>>

\* Command.run after Profile(options): the loop over the pre-hooks starts
Started(P) ==
  /\ profile' = P
  /\ IF P.st # Ok
     THEN Aborted(P.st) /\ pre_left' = <<>>
     ELSE /\ pre_left' = PreScripts(P)
          /\ pc' = IF PreScripts(P) = <<>> THEN "main" ELSE "pre"
          /\ UNCHANGED <<outcome, returncode>>

\* Main.__init__ up to the first child process of Command.run
MainStart ==
  /\ pc = "start"
  /\ ~options.dry
  /\ Started(NewProfile(Ctx(disk, rev, command), options))
  /\ env' = InitialEnv(options, command)
  /\ UNCHANGED <<disk, rev, command, options, post_left, run_history,
                 cmd_rc, args, windows, printed, fs>>

\* a faulty variant of Rescanned: the loop goes on over the pre-hooks of
\* the new profile that were not yet its turn
RescannedReloading(P) ==
  /\ profile' = P
  /\ IF P.st # Ok
     THEN Aborted(P.st) /\ UNCHANGED pre_left
     ELSE /\ pre_left' =
               SelectSeq(PreScripts(P),
                         LAMBDA x : /\ x # Head(pre_left)
                                    /\ \A i \in 1..Len(run_history) :
                                         run_history[i].cmdline[1].val # x)
          /\ pc' = IF pre_left' = <<>> THEN "main" ELSE "pre"
          /\ UNCHANGED <<outcome, returncode>>

\* the end of one turn of the pre-hook loop: profile is rebound, the loop
\* goes on over the list it started with
Rescanned(P) ==
  /\ profile' = P
  /\ IF P.st # Ok
     THEN Aborted(P.st) /\ UNCHANGED pre_left
     ELSE /\ pre_left' = Tail(pre_left)
          /\ pc' = IF Tail(pre_left) = <<>> THEN "main" ELSE "pre"
          /\ UNCHANGED <<outcome, returncode>>

\* a line with a "=" that a hook of the phase given printed: the text
\* before the first "=" is the key
PrintedLine(pr, line, i, phase) ==
  SetEnv(pr, SubSeq(line, 1, i - 1),
         [value |-> SubSeq(line, i + 1, Len(line)),
          phase |-> phase,
          pre |-> \/ phase = "pre"
                  \/ /\ SubSeq(line, 1, i - 1) \in DOMAIN pr
                     /\ pr[SubSeq(line, 1, i - 1)].pre])

\* process_stdout.split(b'\n') as the script wrote it, line by line
RECURSIVE Prints(_, _, _)
Prints(pr, lines, phase) ==
  IF lines = <<>> THEN pr
  ELSE Prints(IF FirstEq(Head(lines)) = 0 THEN pr
              ELSE PrintedLine(pr, Head(lines), FirstEq(Head(lines)), phase),
              Tail(lines), phase)

\* run_script(script, env) once the script has ended with code c
ScriptRan(script, c, out, ed) ==
  /\ disk' = ApplyEdit(disk, ed)
  /\ env' = ParseOutput(env, out, windows)
  /\ printed' = Prints(printed, out, pc)
  /\ run_history' = Append(run_history, HistEntry(ScriptLine(script), c, TRUE))

\* one turn of the loop over profile.pre_scripts(): run_script, then the
\* abort or the rescan
PreHook ==
  /\ pc = "pre"
  /\ IF ~ScriptStarts(disk, Head(pre_left))
     THEN /\ Aborted(Crash)
          /\ UNCHANGED <<disk, env, run_history, profile, pre_left,
                         printed>>
     ELSE \E c \in HookExitCodes, out \in HookOutputs, ed \in HookEdits :
            /\ ScriptRan(Head(pre_left), c, out, ed)
            /\ IF PreHookFailed(c)
               THEN Returned(c) /\ UNCHANGED <<profile, pre_left>>
               ELSE Rescanned(Rescan(Ctx(ApplyEdit(disk, ed), rev, command),
                                     options, profile))
  /\ UNCHANGED <<rev, command, options, post_left, cmd_rc, args, windows,
                 fs>>

\* Command.run after run_command returned r: the loop over the post-hooks
\* starts, or run returns
CommandRan(a, r) ==
  /\ run_history' = Append(run_history, HistEntry(a.argv, r, FALSE))
  /\ cmd_rc' = r
  /\ env' = SetEnv(env, <<"RESTIC_EXITCODE">>, <<ToString(r)>>)
  /\ post_left' = PostScripts(profile)
  /\ IF PostScripts(profile) = <<>>
     THEN Returned(r)
     ELSE pc' = "post" /\ UNCHANGED <<outcome, returncode>>

\* Command.run_command with the argument vector a
Called(a) ==
  /\ args' = a
  /\ IF a.st # Ok
     THEN /\ Aborted(a.st)
          /\ UNCHANGED <<run_history, cmd_rc, env, post_left>>
     ELSE \E r \in MainExitCodes : CommandRan(a, r)

\* Command.run_command, and the return when there is no post-hook
RunCommand ==
  /\ pc = "main"
  /\ command \notin {"cpal", "rmcpal"}
  /\ Called(RunArgs(command, profile))
  /\ UNCHANGED <<disk, rev, command, options, profile, pre_left, windows,
                 printed, fs>>

\* one turn of the loop over profile.post_scripts(), and the return after
\* the last one
PostHook ==
  /\ pc = "post"
  /\ IF ~ScriptStarts(disk, Head(post_left))
     THEN /\ Aborted(Crash)
          /\ UNCHANGED <<disk, env, run_history, post_left, printed>>
     ELSE \E c \in HookExitCodes, out \in HookOutputs, ed \in HookEdits :
            /\ ScriptRan(Head(post_left), c, out, ed)
            /\ post_left' = Tail(post_left)
            /\ IF Tail(post_left) = <<>>
               THEN Returned(cmd_rc)
               ELSE pc' = "post" /\ UNCHANGED <<outcome, returncode>>
  /\ UNCHANGED <<rev, command, options, profile, pre_left, cmd_rc, args,
                 windows, fs>>

Next == MainDry \/ MainStart \/ PreHook \/ RunCommand \/ PostHook

Spec == Init /\ [][Next]_vars

NextResolve == MainDry

SpecResolve == InitResolve /\ [][NextResolve]_vars

NextEntries == MainDry

SpecEntries == InitEntries /\ [][NextEntries]_vars

\* Main.__init__ once run() of the dispatched command has returned cmd_rc,
\* whatever the command did
InitReturned ==
  /\ disk = {} /\ rev = FALSE /\ windows \in BOOLEAN
  /\ command = "init"
  /\ options = [profile |-> <<"p">>, dry |-> FALSE, flags |-> NoFlags]
  /\ profile = EmptyProfile
  /\ pc = "returned"
  /\ pre_left = <<>> /\ post_left = <<>>
  /\ env = NoEnv /\ printed = NoEnv /\ fs = NoDirs
  /\ run_history = <<>>
  /\ cmd_rc \in (0 - MaxCode)..MaxCode
  /\ outcome = "none"
  /\ args = NoArgs
  /\ returncode = 0

\* self.returncode = ...run(profile, options) and the remap after it
MainReturned ==
  /\ pc = "returned"
  /\ Returned(cmd_rc)
  /\ UNCHANGED <<disk, rev, command, options, profile, pre_left, post_left,
                 env, run_history, cmd_rc, args, windows, printed, fs>>

NextReturned == MainReturned

SpecReturned == InitReturned /\ [][NextReturned]_vars

NextNames == MainDry

\* CmdCpal.check_same_fs on the file system f: repo.stat() raises when the
\* repository is not there
CheckSameFs(r, f) ==
  IF r.st # Ok THEN r.st
  ELSE IF r.repo.s \notin f.dirs THEN Crash
  ELSE IF r.repo.s \in f.mounts THEN Exit2
  ELSE Ok

\* CmdCpal.run_command up to Command.run_command
CpalGuard(P, f) ==
  IF CheckSameFs(CpalRepo(P), f) # Ok THEN CheckSameFs(CpalRepo(P), f)
  ELSE IF CopyDir(P).st # Ok THEN CopyDir(P).st
  ELSE IF CopyDir(P).dir.s \in f.dirs THEN Exit2
  ELSE Ok

\* CmdRmcpal.run_command up to Command.run_command
RmcpalGuard(P, f) ==
  IF CopyDir(P).st # Ok THEN CopyDir(P).st
  ELSE IF CopyDir(P).dir.s \notin f.dirs THEN Exit2
  ELSE Ok

\* the file systems cp -al may leave when it ends with r: the copy is there
\* after 0, and may be there in part after a failure
AfterCp(f, copy, r) ==
  IF r = 0 THEN {[f EXCEPT !.dirs = @ \cup {copy}]}
  ELSE {f, [f EXCEPT !.dirs = @ \cup {copy}]}

\* the file systems rm -r may leave when it ends with r
AfterRm(f, copy, r) ==
  IF r = 0 THEN {[f EXCEPT !.dirs = @ \ {copy}]}
  ELSE {f, [f EXCEPT !.dirs = @ \ {copy}]}

\* the guard of run_command has ended the run
Guarded(st) ==
  /\ Aborted(st)
  /\ UNCHANGED <<args, run_history, cmd_rc, env, post_left, fs>>

\* CmdCpal.run_command
CpalCommand ==
  /\ pc = "main"
  /\ command = "cpal"
  /\ IF CpalGuard(profile, fs) # Ok
     THEN Guarded(CpalGuard(profile, fs))
     ELSE /\ args' = RunArgs(command, profile)
          /\ \E r \in MainExitCodes :
               /\ CommandRan(RunArgs(command, profile), r)
               /\ fs' \in AfterCp(fs, CopyDir(profile).dir.s, r)
  /\ UNCHANGED <<disk, rev, command, options, profile, pre_left, windows,
                 printed>>

\* CmdRmcpal.run_command
RmcpalCommand ==
  /\ pc = "main"
  /\ command = "rmcpal"
  /\ IF RmcpalGuard(profile, fs) # Ok
     THEN Guarded(RmcpalGuard(profile, fs))
     ELSE /\ args' = RunArgs(command, profile)
          /\ \E r \in MainExitCodes :
               /\ CommandRan(RunArgs(command, profile), r)
               /\ fs' \in AfterRm(fs, CopyDir(profile).dir.s, r)
  /\ UNCHANGED <<disk, rev, command, options, profile, pre_left, windows,
                 printed>>

\* the files of the runs of cpal and rmcpal: the repository /r of p and a
\* flag the two commands do not accept
CpalFileIds == {4, 13}

CpalCommandLines ==
  [command : {"cpal", "rmcpal"},
   flags : {NoFlags, [k \in {"repo"} |-> <<Str("/r")>>]}]

RepoDir == <<"/r">>

\* the file systems the first run starts in: there is no copy, the
\* repository is there or not and may be a mount point
CpalFileSystems ==
  {f \in [dirs : SUBSET {RepoDir}, mounts : SUBSET {RepoDir}] :
     f.mounts \subseteq f.dirs}

\* the state Main.__init__ starts in
Fresh(cl, d) ==
  /\ command = cl.command
  /\ options = [profile |-> <<"p">>, dry |-> d, flags |-> cl.flags]
  /\ profile = EmptyProfile
  /\ pc = "start"
  /\ pre_left = <<>> /\ post_left = <<>>
  /\ env = NoEnv /\ printed = NoEnv
  /\ run_history = <<>>
  /\ cmd_rc = 0
  /\ outcome = "none"
  /\ args = NoArgs
  /\ returncode = 0

\* a live or dry run of cpal or rmcpal on Linux
InitCpal ==
  /\ disk \in DiskChoices(CpalFileIds)
  /\ rev \in BOOLEAN
  /\ windows = FALSE
  /\ fs \in CpalFileSystems
  /\ \E cl \in CpalCommandLines, d \in BOOLEAN : Fresh(cl, d)

\* restaround is started once more, on the files and directories the run
\* before has left: exec_main, Main.init_globals
Again ==
  /\ pc = "done"
  /\ \E cl \in CpalCommandLines, d \in BOOLEAN :
       /\ command' = cl.command
       /\ options' = [profile |-> <<"p">>, dry |-> d, flags |-> cl.flags]
  /\ profile' = EmptyProfile
  /\ pc' = "start"
  /\ pre_left' = <<>> /\ post_left' = <<>>
  /\ env' = NoEnv /\ printed' = NoEnv
  /\ run_history' = <<>>
  /\ cmd_rc' = 0
  /\ outcome' = "none"
  /\ args' = NoArgs
  /\ returncode' = 0
  /\ UNCHANGED <<disk, rev, windows, fs>>

NextCpal == MainDry \/ MainStart \/ CpalCommand \/ RmcpalCommand \/ Again

SpecCpal == InitCpal /\ [][NextCpal]_vars

\* the files of the runs that look at the order of the hooks: the pre-hooks
\* of default, of p and of p for init, and the post-hooks
OrderFileIds == {15, 16, 17, 18, 35}

OrderCommandLines == [command : {"init"}, flags : {NoFlags}]

\* a live or dry run over these files
InitOrder ==
  InitWith(DiskChoices(OrderFileIds), OrderCommandLines, BOOLEAN, {FALSE})

SpecOrder == InitOrder /\ [][Next]_vars

\* the files of the runs over profiles that inherit each other: p and q
\* inherit each other, q inherits itself under init
CycleFileIds == {3, 4, 9, 10, 13, 33, 34}

CycleCommandLines ==
  { cl \in [command : ResolveCommands,
            flags : {NoFlags, [k \in {"inherit"} |-> <<Str("q")>>]}] :
      DOMAIN cl.flags \subseteq SeqRange(AcceptsFlags(cl.command)) }

\* a dry run over these files
InitCycle ==
  InitWith(DiskChoices(CycleFileIds), CycleCommandLines, {TRUE}, {FALSE})

NextCycle == MainDry

SpecCycle == InitCycle /\ [][NextCycle]_vars

SpecNames == InitNames /\ [][NextNames]_vars

----------------------------------------------------------------------------
(* Vocabulary of the properties *)

\* the run has ended after showing or running an argument vector
Shown == pc = "done" /\ outcome = "return" /\ args.st = Ok

\* the selected command renders a restic call (Command.run_args)
ResticCall == command \notin {"cpal", "rmcpal"}

\* the elements of the argument vector that flag kind k produced
TokensOf(k) == SelectSeq(args.argv, LAMBDA t : t.name = k)

ValuesOf(k) == [i \in 1..Len(TokensOf(k)) |-> TokensOf(k)[i].val]

GivenOnCommandLine(k) == k \in DOMAIN options.flags

\* kinds with one value at most, the value being more than presence
SingleValued(k) == ~Multi(k) /\ k \notin BinaryFlagNames

\* the kinds the selected command accepts and renders with their values
ValueKinds ==
  SeqRange(AcceptsFlags(command))
    \ ({"inherit"} \cup ScriptFlagNames \cup BinaryFlagNames)

Default == <<"default">>

Named == options.profile

\* the entries of the files of profile prof that are on disk
EntriesOf(prof) ==
  {ProfileEntry(Files[i]) : i \in {j \in disk : Files[j].prof = prof}}

\* the values the entries of prof themselves give kind k, the entries
\* taken with the command scopes named
OwnValues(prof, k, scopes) ==
  UNION {SeqRange(NewFlag(k, e).values) :
           e \in {x \in EntriesOf(prof) :
                    x.flag_name = k /\ ~x.remove /\ x.command \in scopes}}

\* prof sets k for the selected command
Sets(prof, k) == OwnValues(prof, k, {NoCommand, command}) # {}

\* prof has a removal entry for k that applies to the selected command
Removes(prof, k) ==
  \E e \in EntriesOf(prof) :
    e.flag_name = k /\ e.remove /\ e.command \in {NoCommand, command}

\* the profiles the entries of prof inherit
InheritsOf(prof) ==
  {v.s : v \in OwnValues(prof, "inherit", {NoCommand, command})}

RECURSIVE Reach(_, _)
Reach(profs, n) ==
  IF n = 0 THEN profs
  ELSE Reach(profs \cup UNION {InheritsOf(x) : x \in profs}, n - 1)

\* default inherits the named profile, directly or through other profiles
DefaultInheritsNamed ==
  Named \in Reach(InheritsOf(Default), MaxDepth)

----------------------------------------------------------------------------
(* C1 *)

\* C1 as claimed: every single-valued kind given on the command line is
\* rendered exactly once, with the command-line value, whatever the profiles
\* define and whatever else is on the command line (--inherit included).
\* Stated for the commands that render a restic call.
C1_CommandLineWins ==
  (Shown /\ ResticCall) =>
    \A k \in DOMAIN options.flags :
      SingleValued(k) => ValuesOf(k) = options.flags[k]

----------------------------------------------------------------------------
(* C2 *)

\* the case of C2: both default and the named profile set k, nothing
\* removes it, the command line does not give it
BothSet(k) ==
  /\ ~GivenOnCommandLine(k)
  /\ ~Removes(Default, k) /\ ~Removes(Named, k)
  /\ Sets(Default, k) /\ Sets(Named, k)

\* the named profile's single value is rendered and not default's; all of
\* default's values come before all of the named profile's
NamedWins(k) ==
  LET vals == ValuesOf(k)
      dv == OwnValues(Default, k, {NoCommand, command})
      nv == OwnValues(Named, k, {NoCommand, command})
  IN IF SingleValued(k)
     THEN Len(vals) = 1 /\ vals[1] \in nv /\ vals[1] \notin dv
     ELSE /\ dv \cup nv \subseteq SeqRange(vals)
          /\ \A i, j \in 1..Len(vals) :
               (vals[i] \in dv /\ vals[j] \in nv) => i < j

\* C2 as claimed: for every kind both default and the named profile set
\* (no command-line value, no removal), the named profile's single value is
\* the one rendered, and default's values precede the named profile's.
C2_Original ==
  (Shown /\ ResticCall) => \A k \in ValueKinds : BothSet(k) => NamedWins(k)

\* C2: the precedence law holds when, in addition, no --inherit is given on
\* the command line and default does not inherit the named profile.
C2_Precedence ==
  (Shown /\ ResticCall /\ ~GivenOnCommandLine("inherit")
     /\ ~DefaultInheritsNamed)
    => \A k \in ValueKinds : BothSet(k) => NamedWins(k)

\* default sets verbose=7, the named profile verbose=4, and 4 is rendered
C2_Witness ==
  /\ Shown /\ command = "backup" /\ {1, 4} \subseteq disk
  /\ ~GivenOnCommandLine("inherit") /\ ~DefaultInheritsNamed
  /\ BothSet("verbose")
  /\ ValuesOf("verbose") = <<Str("4")>>

----------------------------------------------------------------------------
(* C3 *)

\* the case of C3: the named profile removes k and inherits a profile that
\* sets k, the command line does not give k
RemovedInherited(k) ==
  /\ Removes(Named, k)
  /\ \E q \in InheritsOf(Named) : Sets(q, k)
  /\ ~GivenOnCommandLine(k)

\* C3 as claimed: a removal entry of the named profile for a flag it
\* inherits leaves no token of the flag in the argument vector.
C3_Original ==
  (Shown /\ ResticCall) =>
    \A k \in ValueKinds : RemovedInherited(k) => TokensOf(k) = <<>>

\* C3: when no --inherit is given on the command line, a kind the named
\* profile removes (and the command line does not give) has no token in the
\* argument vector, whatever the profile inherits or sets itself for it.
C3_Removal ==
  (Shown /\ ResticCall /\ ~GivenOnCommandLine("inherit")) =>
    \A k \in SeqRange(AcceptsFlags(command)) :
      (Removes(Named, k) /\ ~GivenOnCommandLine(k)) => TokensOf(k) = <<>>

\* p removes verbose, inherits q, q sets verbose=1: no verbose token
C3_Witness ==
  /\ Shown /\ command = "backup" /\ disk = {8, 9, 11}
  /\ ~GivenOnCommandLine("inherit")
  /\ RemovedInherited("verbose")
  /\ TokensOf("verbose") = <<>>

----------------------------------------------------------------------------
(* C4 *)

\* file i carries the scope prefix of a command other than the selected one
ScopedElsewhere(i) ==
  ProfileEntry(Files[i]).command \notin {NoCommand, command}

\* the name of file i gives values and the file is not empty
ValuesAndContent(i) ==
  LET name == Files[i].name
      rest == IF name[2] = "no" THEN SubSeq(name, 3, Len(name))
              ELSE SubSeq(name, 2, Len(name))
  IN Len(rest) > 1 /\ StSize(Files[i]) # 0

\* what the dry run yields with the files dk on disk
DryRunOn(dk) ==
  LET P == NewProfile(Ctx(dk, rev, command), options)
  IN [profile |-> P,
      args |-> IF P.st = Ok THEN RunArgs(command, P) ELSE NoArgs]

SameAsWithout(i) ==
  LET r == DryRunOn(disk \ {i})
  IN profile = r.profile /\ args = r.args

\* C4 as claimed: a file scoped to another command is ignored entirely, the
\* resolved flags and the argument vector are those of the run without it.
C4_Original ==
  pc = "done" => \A i \in disk : ScopedElsewhere(i) => SameAsWithout(i)

\* C4: a file scoped to another command is ignored, the resolved flags and
\* the argument vector are those of the run without it, unless its name
\* gives values and the file is not empty.
C4_Scoping ==
  pc = "done" =>
    \A i \in disk :
      (ScopedElsewhere(i) /\ ~ValuesAndContent(i)) => SameAsWithout(i)

\* init is resolved with backup_verbose_3 and verbose_4 on disk: verbose=4
C4_Witness ==
  /\ Shown /\ command = "init" /\ {4, 5} \subseteq disk
  /\ ScopedElsewhere(5) /\ ~ValuesAndContent(5)
  /\ ValuesOf("verbose") = <<Str("4")>>

----------------------------------------------------------------------------
(* C5 *)

\* the case of C5: the named profile sets k by an unscoped entry and by an
\* entry scoped to the selected command, and its entries are the last to
\* touch k
ScopedAndUnscoped(k) ==
  /\ OwnValues(Named, k, {NoCommand}) # {}
  /\ OwnValues(Named, k, {command}) # {}
  /\ ~Removes(Named, k)
  /\ ~GivenOnCommandLine(k) /\ ~GivenOnCommandLine("inherit")

\* the scoped value is the one rendered; of a multi-valued kind the values
\* end with the unscoped ones followed by the scoped ones
ScopedLast(k) ==
  LET vals == ValuesOf(k)
      n == Len(vals)
      U == OwnValues(Named, k, {NoCommand})
      S == OwnValues(Named, k, {command})
      u == Cardinality(U)
      s == Cardinality(S)
  IN IF SingleValued(k)
     THEN n = 1 /\ vals[1] \in S /\ vals[1] \notin U
     ELSE /\ n >= u + s
          /\ {vals[i] : i \in (n - s + 1)..n} = S
          /\ {vals[i] : i \in (n - s - u + 1)..(n - s)} = U

----------------------------------------------------------------------------
(* C6 *)

\* the argument vector after its first two words
FlagTokens == SubSeq(args.argv, 3, Len(args.argv))

\* how many elements a resolved flag renders
TokenCount(fl) ==
  IF fl.kind \in BinaryFlagNames THEN 1
  ELSE IF fl.kind \in ScriptFlagNames THEN 0
  ELSE Len(fl.values)

\* the elements are grouped per kind, the groups in declaration order
InDeclarationOrder(toks) ==
  \A i, j \in 1..Len(toks) :
    i < j => /\ AcceptIndex(command, toks[i].name) > 0
             /\ AcceptIndex(command, toks[i].name)
                  <= AcceptIndex(command, toks[j].name)

\* every resolved flag is rendered once, and nothing else is
EachFlagOnce ==
  \A k \in MainFlags :
    Len(TokensOf(k)) = IF HasFlag(profile, k) /\ k \in SeqRange(AcceptsFlags(command))
                       THEN TokenCount(profile.flags[k]) ELSE 0

\* every positional element comes after every --name and --name=value
PositionalsLast(toks) ==
  \A i, j \in 1..Len(toks) :
    (i < j /\ toks[i].form = "pos") => toks[j].form = "pos"

\* the kinds of the elements, in order
KindsOf(toks) == [i \in 1..Len(toks) |-> toks[i].name]

\* the vector does not depend on the order the directories are listed in,
\* up to the order of the values within one kind
SameKindsScannedBackwards ==
  LET P == NewProfile(Ctx(disk, ~rev, command), options)
  IN /\ P.st = Ok
     /\ KindsOf(RunArgs(command, P).argv) = KindsOf(args.argv)

RenderedInOrder ==
  /\ Len(args.argv) >= 2
  /\ args.argv[1] = Word("restic") /\ args.argv[2] = Word(command)
  /\ InDeclarationOrder(FlagTokens)
  /\ EachFlagOnce
  /\ PositionalsLast(FlagTokens)
  /\ SameKindsScannedBackwards

\* C6 as claimed: the argument vector of every command is restic, the
\* subcommand, then the resolved flags in declaration order, positionals
\* last, independent of the scan order.
C6_Original == Shown => RenderedInOrder

\* C6: the argument vector of every command but cpal and rmcpal is restic,
\* the subcommand, then the elements of the resolved flags grouped per kind
\* in the declaration order of the accepted kinds, each resolved flag
\* rendered once, every positional element after every --name and
\* --name=value, whatever the scan order was.
C6_RenderingOrder == (Shown /\ ResticCall) => RenderedInOrder

\* backup with a general kind, two specific kinds and a positional
C6_Witness ==
  /\ Shown /\ command = "backup" /\ disk = {4, 6, 14}
  /\ GivenOnCommandLine("filedir")
  /\ KindsOf(FlagTokens) = <<"verbose", "exclude-caches", "tag", "filedir">>

----------------------------------------------------------------------------
(* Vocabulary of the properties about a run *)

\* entry i of the run history is a hook script / the main command
IsScript(i) == run_history[i].cmdline[1].form = "script"

IsMain(i) == ~IsScript(i)

MainRan == \E i \in 1..Len(run_history) : IsMain(i)

\* entry i is a pre-hook: a script that ran before the main command
IsPreHook(i) == IsScript(i) /\ \A j \in 1..i : IsScript(j)

\* entry i is a post-hook: a script that ran after the main command
IsPostHook(i) == IsScript(i) /\ \E j \in 1..i : IsMain(j)

\* the scripts of the post-hooks that have run, in order
PostHooksRun ==
  LET idx == SelectSeq([i \in 1..Len(run_history) |-> i],
                       LAMBDA i : IsPostHook(i))
  IN [n \in 1..Len(idx) |-> run_history[idx[n]].cmdline[1].val]

----------------------------------------------------------------------------
(* C7 *)

\* a pre-hook that exits non-zero is the last process of the run
NothingAfter(i) == i = Len(run_history) /\ pc = "done" /\ outcome = "return"

\* C7 as claimed: after a pre-hook that exits with a non-zero code c
\* nothing else is executed and the overall result is exactly c.
C7_Original ==
  \A i \in 1..Len(run_history) :
    (IsPreHook(i) /\ run_history[i].returncode # 0) =>
      NothingAfter(i) /\ returncode = run_history[i].returncode

\* C7: after a pre-hook that exits with a non-zero code c nothing else is
\* executed, and the overall result is c, or c - 1 when c is a multiple
\* of 256.
C7_PreHookFailure ==
  \A i \in 1..Len(run_history) :
    (IsPreHook(i) /\ run_history[i].returncode # 0) =>
      /\ NothingAfter(i)
      /\ returncode = IF run_history[i].returncode % 256 = 0
                      THEN run_history[i].returncode - 1
                      ELSE run_history[i].returncode

\* the second pre-hook exits with 256: the run ends there with 255
C7_Witness ==
  /\ Len(run_history) = 2
  /\ IsPreHook(2) /\ run_history[1].returncode = 0
  /\ run_history[2].returncode = 256
  /\ pre_left # <<>>
  /\ pc = "done" /\ returncode = 255

----------------------------------------------------------------------------
(* C8 *)

\* the argument vector of the files that are on disk now
ArgsFromDisk ==
  LET P == NewProfile(Ctx(disk, rev, command), options)
  IN IF P.st = Ok THEN RunArgs(command, P) ELSE NoArgs

\* C8: the argument vector the main command is called with is the one
\* resolved from the profile files as they are when the last pre-hook has
\* finished.
C8_Rescan == [][(pc = "main" /\ pc' # "main") => args' = ArgsFromDisk]_vars

\* a pre-hook has written p/repo and has deleted p/verbose_4: the main
\* command is called with --repo and without --verbose
C8_Witness ==
  /\ MainRan /\ Len(run_history) >= 3 /\ IsPreHook(1) /\ IsPreHook(2)
  /\ 13 \in disk /\ 4 \notin disk
  /\ \A i \in 1..Len(run_history) : ~IsPostHook(i)
  /\ KindsOf(SubSeq(args.argv, 3, Len(args.argv))) = <<"repo">>

----------------------------------------------------------------------------
(* C9 *)

\* C9 as claimed: once the main command has completed with exit code r the
\* run ends by returning r (remapped), after every post-hook of the
\* resolved profile has run, in order.
C9_PostHooksAllRun ==
  (pc = "done" /\ MainRan) =>
    /\ outcome = "return"
    /\ PostHooksRun = PostScripts(profile)
    /\ returncode = IF cmd_rc > 0 /\ cmd_rc % 256 = 0 THEN cmd_rc - 1
                    ELSE cmd_rc

----------------------------------------------------------------------------
(* C10 *)

\* C10: a run that returns after the main command ended with r returns r,
\* and r - 1 when r is a positive multiple of 256.
C10_Remap ==
  (pc = "done" /\ outcome = "return" /\ MainRan) =>
    returncode = IF cmd_rc > 0 /\ cmd_rc % 256 = 0 THEN cmd_rc - 1
                 ELSE cmd_rc

\* the main command ended with 256, a post-hook ran, the run returns 255
C10_Witness ==
  /\ pc = "done" /\ outcome = "return" /\ MainRan
  /\ cmd_rc = 256 /\ returncode = 255
  /\ PostHooksRun # <<>>

----------------------------------------------------------------------------
(* C11 *)

\* C11 as claimed: a dry run of a profile that resolves executes nothing
\* and its result is 0, for every command.
C11_Original ==
  (options.dry /\ pc = "done" /\ profile.st = Ok) =>
    run_history = <<>> /\ returncode = 0

\* C11: a dry run executes nothing; its result is 0 when the profile
\* resolves and the argument vector of the command can be built, which it
\* always can for the commands that render a restic call; otherwise the
\* run is aborted with a non-zero status.
C11_DryRun ==
  options.dry =>
    /\ run_history = <<>>
    /\ pc = "done" =>
         /\ (profile.st = Ok /\ ResticCall) => Shown
         /\ Shown => returncode = 0
         /\ ~Shown => returncode # 0 /\ outcome \in {"exit", "crash"}

\* a dry run of init with a pre-hook and a post-hook in the profile
C11_Witness ==
  /\ options.dry /\ Shown /\ command = "init"
  /\ PreScripts(profile) # <<>> /\ PostScripts(profile) # <<>>
  /\ run_history = <<>> /\ returncode = 0

----------------------------------------------------------------------------
(* C12 *)

\* the name of file i without its command prefix and its removal marker
BareName(i) ==
  LET name == Files[i].name
      scoped == /\ Len(name) > 1 /\ name[1] \in CommandNames
                /\ \/ name[2] \in MainFlags
                   \/ name[2] = "no" /\ Len(name) > 2 /\ name[3] \in MainFlags
      n1 == IF scoped THEN Tail(name) ELSE name
  IN IF n1 # <<>> /\ n1[1] = "no" THEN Tail(n1) ELSE n1

\* the name of file i gives at least one value and the file has content
InlineAndContent(i) == Len(BareName(i)) > 1 /\ Files[i].content # <<>>

\* the profiles the run resolves from files
ResolvedProfiles == Reach({Default, Named}, MaxDepth)

\* C12: once a run has started with a file of a resolved profile whose name
\* gives a value and which is not empty, the run is over: it has ended with
\* exit status 2, nothing has been executed and no argument vector built.
C12_InlineAndContent ==
  (pc # "start"
     /\ \E i \in disk : Files[i].prof \in ResolvedProfiles /\ InlineAndContent(i))
    => /\ pc = "done" /\ outcome = "exit" /\ returncode = 2
       /\ run_history = <<>>
       /\ args = NoArgs

\* a live run of init with a pre-hook and the non-empty p/init_verbose_3
C12_Witness ==
  /\ ~options.dry /\ pc = "done" /\ {10, 15} \subseteq disk
  /\ InlineAndContent(10)
  /\ outcome = "exit" /\ returncode = 2 /\ run_history = <<>>

----------------------------------------------------------------------------
(* C13 *)

\* a line without its leading and its trailing blanks
Trimmed(x) ==
  LET ns == {j \in 1..Len(x) : x[j] # " "}
  IN IF ns = {} THEN <<>>
     ELSE SubSeq(x, CHOOSE a \in ns : \A b \in ns : a <= b,
                 CHOOSE a \in ns : \A b \in ns : a >= b)

\* the values the content of file i stands for, line by line
ContentValues(i) ==
  LET c == Files[i].content
      t == [j \in 1..Len(c) |-> Trimmed(c[j])]
      kept == SelectSeq(t, LAMBDA x : x # <<>> /\ x[1] # "#")
  IN [j \in 1..Len(kept) |-> [py |-> FALSE, s |-> kept[j]]]

\* file i of the named profile is named just <flag>, and nothing else gives
\* or removes that kind: no other file of a resolved profile, no option
JustFlag(i) ==
  /\ i \in disk /\ Files[i].prof = Named /\ Len(Files[i].name) = 1
  /\ ~GivenOnCommandLine(Files[i].name[1])
  /\ \A j \in disk \ {i} :
       (Files[j].prof \in ResolvedProfiles /\ BareName(j) # <<>>)
         => BareName(j)[1] # Files[i].name[1]

\* kind k is rendered as one --k=<line> per content line of file i
OnePerLine(i, k) ==
  TokensOf(k) = [j \in 1..Len(ContentValues(i)) |->
                   Token("opt", k, ContentValues(i)[j])]

\* C13 as claimed: a file named just <flag> yields one --<flag>=<line> per
\* kept line of its content for every multi-valued kind the command accepts.
C13_Original ==
  Shown => \A i \in disk :
    (JustFlag(i) /\ Multi(Files[i].name[1])
       /\ Files[i].name[1] \in SeqRange(AcceptsFlags(command)))
      => OnePerLine(i, Files[i].name[1])

\* the multi-valued kinds that take their values from the content of the
\* file and render them as options
ContentListKind(k) ==
  /\ Multi(k) /\ ResolveContent(k)
  /\ ~IsPositional(k) /\ k # "inherit"

\* C13, amended: a file named just <flag> yields one --<flag>=<line> per line
\* of its content, in file order, each line stripped, empty lines and lines
\* starting with # dropped, for the multi-valued kinds that resolve content
\* and are rendered as options.
C13_ContentLines ==
  Shown => \A i \in disk :
    (JustFlag(i) /\ ContentListKind(Files[i].name[1])
       /\ Files[i].name[1] \in SeqRange(AcceptsFlags(command)))
      => OnePerLine(i, Files[i].name[1])

\* backup with p/tag, whose lines are " a", "#x", "", " ", "b "
C13_Witness ==
  /\ Shown /\ command = "backup" /\ JustFlag(19)
  /\ ValuesOf("tag") = <<Str("a"), Str("b")>>

----------------------------------------------------------------------------
(* C14 *)

\* C14 as claimed: a run that resolves a profile with a removal entry for
\* inherit which applies to the selected command ends with an error and a
\* non-zero exit code.
C14_NoInheritFatal ==
  (pc = "done" /\ \E prof \in ResolvedProfiles : Removes(prof, "inherit"))
    => outcome \in {"exit", "crash"} /\ returncode # 0

----------------------------------------------------------------------------
(* C16 *)

\* the kinds of the resolved flag set
Retained == DOMAIN profile.flags

\* C16 as claimed: no flag of a resolved Profile has zero values.
C16_Original ==
  (pc = "done" /\ profile.st = Ok)
    => \A k \in Retained : profile.flags[k].values # <<>>

\* a file of a resolved profile that sets kind k for the selected command
\* and gives it no value: no inline value, and no content line that counts
\* or a kind that does not read the content
SetsWithoutValue(i, k) ==
  /\ i \in disk /\ Files[i].prof \in ResolvedProfiles
  /\ BareName(i) = <<k>>
  /\ ~ProfileEntry(Files[i]).remove
  /\ ProfileEntry(Files[i]).command \in {NoCommand, command}
  /\ ContentValues(i) = <<>> \/ ~ResolveContent(k)

\* C16, amended: a flag of a resolved Profile has zero values only when it
\* is a binary flag, a positional flag that was not given on the command
\* line, or a flag that a profile file sets without giving it a value.
C16_ZeroValues ==
  (pc = "done" /\ profile.st = Ok)
    => \A k \in Retained :
         profile.flags[k].values = <<>>
           => \/ k \in BinaryFlagNames
              \/ k \in PositionalFlagNames /\ ~GivenOnCommandLine(k)
              \/ \E i \in disk : SetsWithoutValue(i, k)

\* backup with the empty file p/verbose: verbose is retained without a
\* value and renders nothing
C16_Witness ==
  /\ Shown /\ command = "backup" /\ 23 \in disk
  /\ "verbose" \in Retained /\ profile.flags["verbose"].values = <<>>
  /\ TokensOf("verbose") = <<>>

----------------------------------------------------------------------------
(* C17 *)

\* the kinds the selected command accepts
Accepted == SeqRange(AcceptsFlags(command))

\* C17: after resolution every flag of the resolved set is of a kind the
\* selected command accepts, and every element of the argument vector that a
\* flag produced comes from an accepted kind.
C17_AcceptedOnly ==
  pc = "done"
    => /\ Retained \subseteq Accepted
       /\ \A j \in 1..Len(args.argv) :
            args.argv[j].name # "" => args.argv[j].name \in Accepted

\* init with p/tag_b: tag is no flag of init, the entry is dropped
C17_Witness ==
  /\ Shown /\ command = "init" /\ 6 \in disk
  /\ "tag" \notin Accepted
  /\ ProfileEntry(Files[6]).flag_name = "tag" /\ Files[6].prof = Named
  /\ "tag" \notin Retained /\ TokensOf("tag") = <<>>

----------------------------------------------------------------------------
(* C19 *)

\* p/inherit with the line q and q/repo with the line /data are on disk;
\* p has no other entry about inherit, and no other entry and no option
\* gives or removes repo
InheritsRepo ==
  /\ {24, 25} \subseteq disk
  /\ JustFlag(25) /\ BareName(25) = <<"inherit">>
  /\ ContentValues(25) = <<Str("q")>>
  /\ Files[24].prof = <<"q">>
  /\ BareName(24) = <<"repo">> /\ ContentValues(24) = <<Str("/data")>>
  /\ ~GivenOnCommandLine("repo")
  /\ \A j \in disk \ {24} : BareName(j) # <<>> => BareName(j)[1] # "repo"

\* the argument vector holds --repo=/data, once
RepoData ==
  /\ Shown
  /\ TokensOf("repo") = <<Token("opt", "repo", PyPath(Str("/data")))>>

\* C19 as claimed: with the named profile inheriting a profile that sets
\* repo to /data, every command shows --repo=/data.
C19_Original == (pc = "done" /\ InheritsRepo) => RepoData

\* C19, amended: every command that accepts the general flags shows
\* --repo=/data; cpal and rmcpal, which accept repo only, do not read the
\* inherit entry and end with exit status 2.
C19_InheritedRepo ==
  (pc = "done" /\ InheritsRepo)
    => IF "inherit" \in Accepted THEN RepoData
       ELSE /\ command \in {"cpal", "rmcpal"}
            /\ ~Shown /\ outcome = "exit" /\ returncode = 2
            /\ "repo" \notin Retained

\* init with p/inherit and q/repo only
C19_Witness ==
  /\ Shown /\ command = "init" /\ disk = {24, 25} /\ InheritsRepo
  /\ ValuesOf("repo") = <<PyPath(Str("/data"))>>

----------------------------------------------------------------------------
(* C20 *)

\* prof has an entry that gives kind k for the selected command, with or
\* without a value
HasEntry(prof, k) ==
  \E e \in EntriesOf(prof) :
    e.flag_name = k /\ ~e.remove /\ e.command \in {NoCommand, command}

\* C20: the entries of the profiles that the named profile inherits are
\* applied before its own entries.  When the named profile has an entry for
\* a single-valued kind, unscoped or scoped to the selected command, and
\* neither removes the kind nor is the kind or an inheritance given on the
\* command line, the value shown is one of the named profile's own, whatever
\* the inherited profiles set.
C20_InheritFirst ==
  Shown => \A k \in ValueKinds :
    (SingleValued(k) /\ ~GivenOnCommandLine(k)
       /\ ~GivenOnCommandLine("inherit")
       /\ HasEntry(Named, k) /\ ~Removes(Named, k))
      => SeqRange(ValuesOf(k)) \subseteq OwnValues(Named, k, {NoCommand, command})

\* backup with p/inherit (line q), the unscoped p/verbose_4 and the scoped
\* q/backup_verbose_2: verbose is 4
C20_Witness ==
  /\ Shown /\ command = "backup" /\ disk = {4, 25, 26}
  /\ InheritsOf(Named) = {<<"q">>}
  /\ OwnValues(<<"q">>, "verbose", {command}) = {Str("2")}
  /\ OwnValues(Named, "verbose", {NoCommand}) = {Str("4")}
  /\ ~GivenOnCommandLine("verbose")
  /\ ValuesOf("verbose") = <<Str("4")>>

----------------------------------------------------------------------------
(* C18 *)

----------------------------------------------------------------------------
(* C15 *)

\* the next step hands env to a hook script
HookNext == pc \in {"pre", "post"}

\* the keys of the KEY=VALUE lines that pre-hooks have printed
PreHookKeys == {k \in DOMAIN printed : printed[k].pre}

QuotesOff(v) ==
  IF Len(v) >= 1 /\ v[1] = "\"" /\ v[Len(v)] = "\""
  THEN SubSeq(v, 2, Len(v) - 1) ELSE v

\* the main command has run since RESTIC_EXITCODE was printed last
ExitCodeSet(k) ==
  k = <<"RESTIC_EXITCODE">> /\ pc = "post" /\ printed[k].phase = "pre"

\* the value the next hook finds for a key that hooks before it printed
Folded(k) ==
  IF ExitCodeSet(k) THEN <<ToString(cmd_rc)>>
  ELSE IF windows THEN QuotesOff(printed[k].value)
  ELSE printed[k].value

----------------------------------------------------------------------------
(* C21 *)

\* file i of the named profile applies to the selected command and gives
\* kind k, a single-valued kind, more than one value: by its name or by
\* the lines of its content
SeveralValues(i, k) ==
  /\ i \in disk /\ Files[i].prof = Named
  /\ BareName(i) # <<>> /\ BareName(i)[1] = k
  /\ SingleValued(k) /\ ResolveContent(k)
  /\ ~ProfileEntry(Files[i]).remove
  /\ ProfileEntry(Files[i]).command \in {NoCommand, command}
  /\ \/ Len(BareName(i)) > 2
     \/ Len(BareName(i)) = 1 /\ Len(ContentValues(i)) > 1

\* C21 as claimed: a single-valued flag that one entry gives several values
\* does not abort the run; the run goes on and the flag has one value at
\* most.
C21_SkipWithWarning ==
  (pc = "done" /\ \E i \in disk : \E k \in MainFlags : SeveralValues(i, k))
    => /\ profile.st # Exit2
       /\ ~(outcome = "exit" /\ returncode = 2)
       /\ \A k \in Retained :
            SingleValued(k) => Len(profile.flags[k].values) <= 1

----------------------------------------------------------------------------
(* C24 *)

\* the first part of the name of file i is a command scope: it is a command
\* name and the next part is a flag name, or "no" followed by a flag name
RuleScoped(i) ==
  /\ Len(Files[i].name) > 1 /\ Files[i].name[1] \in CommandNames
  /\ \/ Files[i].name[2] \in MainFlags
     \/ /\ Files[i].name[2] = "no" /\ Len(Files[i].name) > 2
        /\ Files[i].name[3] \in MainFlags

RuleScope(i) == IF RuleScoped(i) THEN Files[i].name[1] ELSE NoCommand

RuleRemove(i) ==
  IF RuleScoped(i) THEN Files[i].name[2] = "no" ELSE Files[i].name[1] = "no"

\* the entry that file i stands for under this rule
RuleEntry(i) ==
  [command |-> RuleScope(i), remove |-> RuleRemove(i),
   flag_name |-> BareName(i)[1],
   values |-> [j \in 1..(Len(BareName(i)) - 1) |-> Str(BareName(i)[j + 1])]]

\* what ProfileEntry makes of file i
ParsedEntry(i) ==
  [command |-> ProfileEntry(Files[i]).command,
   remove |-> ProfileEntry(Files[i]).remove,
   flag_name |-> ProfileEntry(Files[i]).flag_name,
   values |-> ProfileEntry(Files[i]).values]

\* C24 as claimed: a file of the named profile whose name, read by the rule,
\* gives a known flag is parsed without failing, to the scope, removal, flag
\* name and inline values of the rule.
C24_EntryNames ==
  pc = "done" => \A i \in disk :
    (Files[i].prof = Named /\ BareName(i) # <<>>
       /\ BareName(i)[1] \in MainFlags)
      => /\ ProfileEntry(Files[i]).st # Crash
         /\ profile.st # Crash
         /\ ProfileEntry(Files[i]).st = Ok => ParsedEntry(i) = RuleEntry(i)

----------------------------------------------------------------------------
(* C27 *)

\* C27: in a resolved profile every flag of a kind that is not multi-valued
\* has one value at most, and so one element of the argument vector at most.
C27_SingleValued ==
  (pc = "done" /\ profile.st = Ok)
    => \A k \in Retained :
         ~Multi(k) => /\ Len(profile.flags[k].values) <= 1
                      /\ Shown => Len(TokensOf(k)) <= 1

\* backup with default/verbose_7, p/verbose_4 and p/backup_verbose_3 and
\* no --verbose: three entries were merged, verbose has the last value
C27_Witness ==
  /\ Shown /\ command = "backup" /\ disk = {1, 4, 5}
  /\ ~GivenOnCommandLine("verbose")
  /\ profile.flags["verbose"].values = <<Str("3")>>
  /\ ValuesOf("verbose") = <<Str("3")>>

----------------------------------------------------------------------------
(* C28 *)

\* C28: when the dispatched command returns r, the final return code is 0
\* if r is 0, and is not 0 modulo 256 if r is not 0.
\* the return code of the dispatched command: the code of the pre-hook that
\* ended the run, else the code of the main command (0 when nothing ran)
Dispatched ==
  IF run_history # <<>> /\ ~MainRan
  THEN run_history[Len(run_history)].returncode
  ELSE cmd_rc

C28_NoFalseSuccess ==
  (pc = "done" /\ outcome = "return")
    => /\ Dispatched = 0 => returncode = 0
       /\ Dispatched # 0 => returncode % 256 # 0

\* the dispatched command has returned -256: the final code is -257, which
\* is 255 modulo 256
C28_Witness ==
  /\ pc = "done" /\ outcome = "return"
  /\ Dispatched = 0 - 256 /\ returncode = 0 - 257 /\ returncode % 256 = 255

----------------------------------------------------------------------------
(* C30 *)

RECURSIVE SumSeq(_)
SumSeq(s) == IF s = <<>> THEN 0 ELSE Head(s) + SumSeq(Tail(s))

\* how often v stands in the sequence s
Occurrences(s, v) == Len(SelectSeq(s, LAMBDA x : x = v))

\* file i is an entry of prof for kind k that adds values for the selected
\* command
AddsTo(i, prof, k) ==
  /\ i \in disk /\ Files[i].prof = prof
  /\ ProfileEntry(Files[i]).st = Ok
  /\ ProfileEntry(Files[i]).flag_name = k
  /\ ~ProfileEntry(Files[i]).remove
  /\ ProfileEntry(Files[i]).command \in {NoCommand, command}

\* how often the entries of prof themselves give kind k the value v
OwnCount(prof, k, v) ==
  SumSeq([i \in 1..NFiles |->
            IF AddsTo(i, prof, k)
            THEN Occurrences(NewFlag(k, ProfileEntry(Files[i])).values, v)
            ELSE 0])

ProfileNames == <<Default, <<"p">>, <<"q">>>>

\* the inheritance paths of at most n profiles that lead from profile from
\* to profile target
RECURSIVE Paths(_, _, _)
Paths(from, target, n) ==
  IF n = 0 THEN 0
  ELSE (IF from = target THEN 1 ELSE 0)
         + SumSeq([j \in 1..Len(ProfileNames) |->
                     IF OwnCount(from, "inherit", Str(ProfileNames[j][1])) = 0
                     THEN 0
                     ELSE OwnCount(from, "inherit", Str(ProfileNames[j][1]))
                            * Paths(ProfileNames[j], target, n - 1)])

\* the inheritance paths to target: from default, from the named profile
\* and from the profiles that --inherit names
PathsTo(target) ==
  Paths(Default, target, MaxDepth) + Paths(Named, target, MaxDepth)
    + IF GivenOnCommandLine("inherit")
      THEN SumSeq([j \in 1..Len(options.flags["inherit"]) |->
                     Paths(options.flags["inherit"][j].s, target, MaxDepth)])
      ELSE 0

\* kind k is rendered with its values, the command accepts it and
\* inheritance, and nothing but entries that add values touches it
OnlyAdded(k) ==
  /\ k \in ValueKinds /\ "inherit" \in Accepted
  /\ ~GivenOnCommandLine(k)
  /\ \A j \in 1..Len(ProfileNames) : ~Removes(ProfileNames[j], k)

\* C30: a profile reached over n inheritance paths is resolved n times:
\* each value v of a multi-valued kind stands in the argument vector once
\* for every path to a profile whose entries give it, and a single-valued
\* kind is rendered once at most.
C30_NoDedup ==
  (Shown /\ ResticCall) =>
    \A k \in ValueKinds :
      /\ (Multi(k) /\ OnlyAdded(k)) =>
           \A v \in {Str("a"), Str("b"), Str("c")} :
             Occurrences(ValuesOf(k), v)
               = SumSeq([j \in 1..Len(ProfileNames) |->
                           IF OwnCount(ProfileNames[j], k, v) = 0 THEN 0
                           ELSE PathsTo(ProfileNames[j])
                                  * OwnCount(ProfileNames[j], k, v)])
      /\ ~Multi(k) => Len(TokensOf(k)) <= 1

\* default inherits p and is inherited once more by --inherit=default: p is
\* resolved three times and its tag b is rendered three times
C30_Witness ==
  /\ Shown /\ command = "backup" /\ disk = {3, 4, 6}
  /\ GivenOnCommandLine("inherit")
  /\ options.flags["inherit"] = <<Str("default")>>
  /\ PathsTo(<<"p">>) = 3
  /\ ValuesOf("tag") = <<Str("b"), Str("b"), Str("b")>>
  /\ ValuesOf("verbose") = <<Str("4")>>

----------------------------------------------------------------------------
(* C29 *)

\* the profiles the resolution starts from
Roots ==
  {Default, Named}
    \cup IF GivenOnCommandLine("inherit")
         THEN {v.s : v \in SeqRange(options.flags["inherit"])}
         ELSE {}

\* a profile reachable from the roots inherits itself, directly or through
\* other profiles, by entries that apply to the selected command
Cyclic ==
  \E x \in Reach(Roots, MaxDepth) : x \in Reach(InheritsOf(x), MaxDepth)

\* C29 as claimed: when a reachable profile inherits itself, resolution
\* never completes.
C29_Original ==
  Cyclic => ~(pc = "done" /\ profile.st = Ok)

\* the selected command reads the inherit entries
InheritRead == "inherit" \in Accepted

\* C29: resolution ends in every case.  Without a cycle it ends with a
\* profile or with the abort of a faulty entry (exit code 2).  With a cycle
\* that the selected command reads it gives no profile: it ends in the
\* RecursionError of the interpreter (a traceback, exit status 1), or in
\* the abort of a faulty entry met before.  A command that does not accept
\* inherit resolves as without the cycle.
C29_Resolution ==
  pc = "done" =>
    /\ ~(Cyclic /\ InheritRead) => profile.st \in {Ok, Exit2}
    /\ (Cyclic /\ InheritRead)
         => /\ profile.st \in {Crash, Exit2}
            /\ profile.st = Exit2 => 10 \in disk
            /\ profile.st = Crash => outcome = "crash" /\ returncode = 1

\* p inherits q and q inherits p: backup ends in a traceback
C29_Witness ==
  /\ pc = "done" /\ command = "backup" /\ disk = {4, 9, 33}
  /\ Cyclic /\ InheritRead
  /\ profile.st = Crash /\ outcome = "crash" /\ returncode = 1

----------------------------------------------------------------------------
(* C22 *)

\* the script that entry i of the run history ran
ScriptOf(i) == run_history[i].cmdline[1].val

\* the pre-hooks on disk in the order claimed: default's, the unscoped one
\* of the named profile, the one scoped to the selected command
ClaimedPreOrder ==
  LET ids == SelectSeq(<<15, 35, 16>>, LAMBDA i : i \in disk)
  IN [n \in 1..Len(ids) |-> FilePath(Files[ids[n]])]

\* the process that a step runs: the one entry it adds to the run history
Ran(e) == run_history' = Append(run_history, e)

RanOne == \E e \in {run_history'[Len(run_history')]} : Ran(e)

\* the shape of a run history: the main command at most once, nothing but
\* pre-hooks that ended with 0 before it, nothing but hooks after it; a
\* pre-hook that did not end with 0 is the last entry
HistoryShape(h) ==
  \A i \in 1..Len(h) :
    /\ h[i].cmdline[1].form # "script"
         => /\ \A j \in 1..(i - 1) :
                 h[j].cmdline[1].form = "script" /\ h[j].returncode = 0
            /\ \A j \in (i + 1)..Len(h) : h[j].cmdline[1].form = "script"
    /\ (h[i].returncode # 0 /\ \A j \in 1..i : h[j].cmdline[1].form = "script")
         => i = Len(h)

OrderedStep ==
  /\ HistoryShape(run_history')
  /\ (pc = "start" /\ pc' \in {"pre", "main"})
       => pre_left' = ClaimedPreOrder /\ run_history' = <<>>
  /\ run_history' # run_history =>
       /\ RanOne
       /\ pc \in {"pre", "main", "post"}
       /\ pc = "pre"
            => /\ IsScript(Len(run_history))' /\ ~MainRan'
               /\ ScriptOf(Len(run_history))' = Head(pre_left)
               /\ pre_left' = IF run_history'[Len(run_history')].returncode = 0
                                  /\ pc' # "done"
                               THEN Tail(pre_left) ELSE pre_left
       /\ pc = "main"
            => /\ IsMain(Len(run_history))' /\ ~MainRan
               /\ pre_left = <<>>
               /\ post_left' = PostScripts(profile)
       /\ pc = "post"
            => /\ IsScript(Len(run_history))' /\ MainRan
               /\ ScriptOf(Len(run_history))' = Head(post_left)
               /\ post_left' = Tail(post_left)
  /\ pc' = "main" => pre_left' = <<>>
  /\ (pc' = "done" /\ outcome' = "return" /\ MainRan') => post_left' = <<>>

\* C22: the processes of a live run are started one at a time: the
\* pre-hooks in the order default's, the named profile's unscoped, its
\* command-scoped ones; the main command once, when no pre-hook is left and
\* all have ended with 0; the post-hooks after it in their order; the run
\* history lists them in this order.
C22_Order == [][OrderedStep]_vars

\* three pre-hooks and the main command have run, in the order claimed
C22_Witness ==
  /\ pc = "done" /\ outcome = "return"
  /\ Len(run_history) = 4
  /\ ScriptOf(1) = FilePath(Files[15])
  /\ ScriptOf(2) = FilePath(Files[35])
  /\ ScriptOf(3) = FilePath(Files[16])
  /\ IsMain(4)

----------------------------------------------------------------------------
(* C23 *)

\* C23 as claimed: every post-hook is run with RESTIC_EXITCODE equal to the
\* exit code of the main command as a decimal string, whatever the hooks
\* before it printed.
C23_ExitCodeSeen ==
  (pc = "post" /\ ScriptStarts(disk, Head(post_left))) =>
    /\ <<"RESTIC_EXITCODE">> \in DOMAIN env
    /\ env[<<"RESTIC_EXITCODE">>] = <<ToString(cmd_rc)>>

----------------------------------------------------------------------------
(* C26 *)

\* the scripts of the pre-hooks in the run history h, in order
RECURSIVE PreHooksOf(_)
PreHooksOf(h) ==
  IF h = <<>> \/ Head(h).cmdline[1].form # "script" THEN <<>>
  ELSE <<Head(h).cmdline[1].val>> \o PreHooksOf(Tail(h))

PreHooksRun == PreHooksOf(run_history)

\* the resolution of the files dk
ResolvedOn(dk) == NewProfile(Ctx(dk, rev, command), options)

FixedListStep ==
  /\ (pc = "start" /\ pc' # "done")
       => pre_left' = PreScripts(ResolvedOn(disk))
  /\ pc = "pre" =>
       /\ pre_left' \in {pre_left, Tail(pre_left)}
       /\ run_history' # run_history
            => PreHooksOf(run_history') = Append(PreHooksRun, Head(pre_left))
       /\ pc' \in {"pre", "main"}
            => /\ pre_left' = Tail(pre_left)
               /\ profile' = ResolvedOn(disk')
  /\ pc = "main" =>
       /\ pre_left = <<>> /\ UNCHANGED pre_left
       /\ profile = ResolvedOn(disk)
       /\ args' = RunArgs(command, profile)
       /\ run_history' # run_history => post_left' = PostScripts(profile)

\* C26: the loop over the pre-hooks walks the list of the first resolution:
\* each turn runs the head of what is left and the rescan never puts a
\* script on the list or takes one off, whatever it finds on disk; the
\* main command and the list of post-hooks come from the resolution of the
\* files as the last pre-hook left them.
C26_FixedList == [][FixedListStep]_vars

\* default's pre-hook has created the entry init_pre of p: the rescan sees
\* it, the run goes on to the main command without running it
C26_Witness ==
  /\ pc = "done" /\ outcome = "return" /\ MainRan
  /\ PreHooksRun = <<FilePath(Files[15])>>
  /\ 16 \in disk
  /\ PreScripts(profile) = <<FilePath(Files[15]), FilePath(Files[16])>>

----------------------------------------------------------------------------
(* C25 *)

NoRepo == ~HasFlag(profile, "repo")

\* the copy directory of the resolved repository is among the directories ds
CopyThere(ds) ==
  /\ HasFlag(profile, "repo")
  /\ profile.flags["repo"].values # <<>>
  /\ profile.flags["repo"].values[1].s \o <<".restaround_cpal">> \in ds

\* the step ends the run with exit code 2 and no process was spawned
EndsWithExit2 ==
  /\ pc' = "done" /\ outcome' = "exit" /\ returncode' = 2
  /\ run_history' = <<>>

\* the step has spawned the process of the command
Spawned == run_history' # <<>>

GuardStep(trusted) ==
  (pc = "main" /\ trusted) =>
    /\ (command = "cpal" /\ (NoRepo \/ CopyThere(fs.dirs))) => EndsWithExit2
    /\ (command = "rmcpal" /\ (NoRepo \/ ~CopyThere(fs.dirs)))
         => EndsWithExit2
    /\ (command = "cpal" /\ Spawned /\ cmd_rc' = 0) => CopyThere(fs'.dirs)
    /\ (command = "rmcpal" /\ Spawned) => CopyThere(fs.dirs)

\* a copy appears by a cp of cpal only, it goes by a rm of rmcpal only
CopyStep ==
  /\ (CopyThere(fs'.dirs) /\ ~CopyThere(fs.dirs) /\ pc # "done")
       => pc = "main" /\ command = "cpal" /\ Spawned
  /\ (CopyThere(fs.dirs) /\ ~CopyThere(fs'.dirs) /\ pc = "main")
       => command = "rmcpal" /\ Spawned

\* C25 as claimed, for live runs: cpal spawns no process and ends with exit
\* code 2 when no repo is resolved or the copy directory exists; rmcpal
\* does so when no repo is resolved or the copy directory does not exist;
\* after a cp that ended with 0 the copy exists, and rm is spawned only when
\* it exists.
C25_Guards == [][GuardStep(TRUE) /\ CopyStep]_vars

\* the repository comes from a profile file and, for cpal, its directory
\* exists
RepoInPlace ==
  /\ ~GivenOnCommandLine("repo")
  /\ command = "cpal" => (NoRepo \/ RepoDir \in fs.dirs)

\* the guards of C25 for the runs in which the repository is in place
C25_GuardsRepoInPlace == [][GuardStep(RepoInPlace) /\ CopyStep]_vars

====
